---- MODULE Spec2Model ----
(***************************************************************************)
(* Model of the potpot storage core: the paged file (storage.rs), the     *)
(* clock replacement manager and the buffer pool (bufferpool.rs).         *)
(*                                                                         *)
(* A page is a sequence of PageUnits storage units; the file is a flat    *)
(* sequence of units.  Frame indices and page ids are 0-based as in the   *)
(* source.  Option<u64> is modelled as an integer, None being -1.         *)
(***************************************************************************)
EXTENDS Integers, Sequences, FiniteSets, TLC

\* ------------------------------------------------------------------ bounds
MaxFrames == 2      \* pool sizes 1..MaxFrames are explored
MaxPages  == 2      \* the file is not grown beyond MaxPages pages
MaxFaults == 1      \* injected I/O failures per behaviour
MaxClock  == 3      \* sizes 1..MaxClock of a stand-alone clock
MaxKey    == 2      \* keys 0..MaxKey-1 handed to a stand-alone clock

\* PagedFile::page_size, in storage units
PageUnits == 2

None == -1

\* The slotted page in small: a byte has ByteBase values and a u16 is two
\* bytes, so u16 arithmetic is modulo Word; PAGESIZE is a quarter of the u16
\* range, as 16384 is of 65536.
ByteBase  == 8
Word      == ByteBase * ByteBase
PAGESIZE  == 16
MaxRecord == 9      \* records of 0..MaxRecord bytes, and oversize ones

\* Payload values.  The pool and the file never inspect a payload, so two
\* values (a stale one and a fresh one) and the zero of a hole suffice.
Data    == {1, 2}
PageIds == 0..(MaxPages - 1)
Keys    == 0..(MaxKey - 1)

VARIABLES
    manager,     \* ClockManager { idx, clock, entries }
    page_table,  \* BufferPool::page_table : page id -> frame index
    frames,      \* BufferPool::frames
    file,        \* contents of the file behind PagedFile
    disk,        \* the part of file that a completed sync_data made durable
    last,        \* the operation that produced this state and its result
    returned,    \* history: page ids returned by successful append_page calls
    expect,      \* history: payload last stored in each page by the caller
    flags,       \* history: which kinds of event have happened so far
    touched,     \* history: slots passed to update since the last sweep
    order,       \* history: keys installed in a clock, oldest first
    page,        \* SlottedPage::data, byte 0 first
    records,     \* history: the records a slotted page accepted
    hpage,       \* a hash page: hashtable::page::Page or its aligned::Buffer
    table,       \* SinglePageHashTable { hash_builder, page_id }
    inserted,    \* history: the pairs handed to SinglePageHashTable::insert
    current_page, \* RecordManager::current_page
    call         \* the pool operation under way and its position

\* the variables of the layers above the pool and the slotted page
layerVars == <<hpage, table, inserted, current_page, call>>

vars == <<manager, page_table, frames, file, disk, last, returned, expect, flags,
          touched, order, page, records, layerVars>>

\* ------------------------------------------------------------- helpers
Max(a, b) == IF a >= b THEN a ELSE b

\* aligned::Buffer::with_value
Buffer_with_value(val) == [i \in 1..PageUnits |-> val]

\* the shape of the variable last
NoOp == [op |-> "new", res |-> "Ok", arg |-> None, ret |-> None,
         evicted |-> None, pre |-> <<>>, spared |-> {}, queue |-> <<>>,
         calls |-> <<>>, rec |-> <<>>]

\* no hash page, no hash table and no record manager
NoPage    == [is |-> "none", buffer |-> <<>>]
NoTable   == [some |-> FALSE, seed |-> 0, vsize |-> 0, page_id |-> None]
NoCurrent == [some |-> FALSE, pid |-> None, pg |-> <<>>]

\* no pool operation under way
NoCall == [op |-> "none", pc |-> "idle", page_id |-> None, buf |-> <<>>,
           frame_idx |-> None, evicted |-> None, fail |-> "none",
           res |-> "Ok", trace |-> <<>>]

LayersUnused ==
    /\ hpage = NoPage
    /\ table = NoTable
    /\ inserted = <<>>
    /\ current_page = NoCurrent
    /\ call = NoCall

\* ------------------------------------------------------- ClockManager
\* ClockManager::new
ClockManager_new(size) ==
    [idx     |-> 0,
     clock   |-> [i \in 0..(size - 1) |-> FALSE],
     entries |-> [i \in 0..(size - 1) |-> None]]

\* an update that leaves the reference bit as it is
ClockManager_update_lost(m, i) == m

\* ClockManager::update
ClockManager_update(m, i) == [m EXCEPT !.clock[i] = TRUE]

\* position in self.clock of the i-th element of
\* clock_to_end.iter_mut().chain(clock_from_start)
clock_cycle(h, size, i) == IF i < size - h THEN h + i ELSE i - (size - h)

\* a scan that clears nothing and keeps circling the ring
RECURSIVE sweep_loop_circling(_, _, _)
sweep_loop_circling(c, h, i) ==
    LET size == Cardinality(DOMAIN c) IN
    IF i >= 3 * size THEN [found |-> None, clock |-> c, examined |-> i]
    ELSE LET pos == clock_cycle(h, size, i % size) IN
         IF c[pos]
         THEN sweep_loop_circling(c, h, i + 1)
         ELSE [found |-> (h + i) % size, clock |-> c, examined |-> i + 1]

\* the for loop of sweep, from iteration i on: clears set bits until it
\* meets a clear one; examined counts the clock bits the iterator yielded
RECURSIVE sweep_loop(_, _, _)
sweep_loop(c, h, i) ==
    LET size == Cardinality(DOMAIN c) IN
    IF i >= size THEN [found |-> None, clock |-> c, examined |-> i]
    ELSE LET pos == clock_cycle(h, size, i) IN
         IF c[pos]
         THEN sweep_loop([c EXCEPT ![pos] = FALSE], h, i + 1)
         ELSE [found |-> (h + i) % size, clock |-> c, examined |-> i + 1]

\* a sweep that forgets to clear the reference bits it passes
ClockManager_sweep_no_clear(m, entry) ==
    LET l   == sweep_loop(m.clock, m.idx, 0)
        idx == IF l.found = None THEN m.idx ELSE l.found
    IN [manager |-> [idx     |-> idx,
                     clock   |-> [m.clock EXCEPT ![idx] = TRUE],
                     entries |-> [m.entries EXCEPT ![idx] = entry]],
        idx     |-> idx,
        evicted |-> m.entries[idx]]

\* a sweep that does not set the reference bit of the slot it fills
ClockManager_sweep_no_ref(m, entry) ==
    LET l   == sweep_loop(m.clock, m.idx, 0)
        idx == IF l.found = None THEN m.idx ELSE l.found
    IN [manager |-> [idx     |-> idx,
                     clock   |-> l.clock,
                     entries |-> [m.entries EXCEPT ![idx] = entry]],
        idx     |-> idx,
        evicted |-> m.entries[idx]]

\* a sweep that, finding every reference bit set, takes the slot after the
\* hand
ClockManager_sweep_past_hand(m, entry) ==
    LET l   == sweep_loop(m.clock, m.idx, 0)
        idx == IF l.found = None
               THEN (m.idx + 1) % Cardinality(DOMAIN m.clock)
               ELSE l.found
    IN [manager |-> [idx     |-> idx,
                     clock   |-> [l.clock EXCEPT ![idx] = TRUE],
                     entries |-> [m.entries EXCEPT ![idx] = entry]],
        idx     |-> idx,
        evicted |-> m.entries[idx]]

\* a sweep that takes the slot without telling who lived there
ClockManager_sweep_no_evict(m, entry) ==
    LET l   == sweep_loop(m.clock, m.idx, 0)
        idx == IF l.found = None THEN m.idx ELSE l.found
    IN [manager |-> [idx     |-> idx,
                     clock   |-> [l.clock EXCEPT ![idx] = TRUE],
                     entries |-> [m.entries EXCEPT ![idx] = entry]],
        idx     |-> idx,
        evicted |-> None]

\* ClockManager::sweep: the new manager, the selected index, the old resident
ClockManager_sweep(m, entry) ==
    LET l   == sweep_loop(m.clock, m.idx, 0)
        idx == IF l.found = None THEN m.idx ELSE l.found
    IN [manager |-> [idx     |-> idx,
                     clock   |-> [l.clock EXCEPT ![idx] = TRUE],
                     entries |-> [m.entries EXCEPT ![idx] = entry]],
        idx     |-> idx,
        evicted |-> m.entries[idx]]

\* ---------------------------------------------------------- PagedFile
\* a write that cuts the file off behind the bytes written
WriteAt_truncating(f, off, bytes) ==
    IF Len(bytes) = 0 THEN f
    ELSE [i \in 1..(off + Len(bytes)) |->
            IF i > off THEN bytes[i - off]
            ELSE IF i <= Len(f) THEN f[i] ELSE 0]

\* the file after writing bytes at offset off (a seek past the end followed
\* by a write leaves a zero-filled hole)
WriteAt(f, off, bytes) ==
    IF Len(bytes) = 0 THEN f
    ELSE [i \in 1..Max(Len(f), off + Len(bytes)) |->
            IF i > off /\ i <= off + Len(bytes) THEN bytes[i - off]
            ELSE IF i <= Len(f) THEN f[i] ELSE 0]

\* PagedFile::read_page; fail names the call that fails, if any
PagedFile_read_page(f, page_number, fail) ==
    LET off == page_number * PageUnits IN
    IF fail = "seek" THEN [res |-> "Err", buf |-> <<>>]
    ELSE IF fail = "read" \/ off + PageUnits > Len(f)
         THEN [res |-> "Err", buf |-> <<>>]
         ELSE [res |-> "Ok", buf |-> SubSeq(f, off + 1, off + PageUnits)]

\* a write_page that returns without the data sync
PagedFile_write_page_no_sync(f, page_number, buf, fail, n) ==
    LET off == page_number * PageUnits IN
    IF fail = "seek"
    THEN [res |-> "Err", file |-> f, calls |-> <<"seek">>, synced |-> FALSE]
    ELSE IF fail = "write"
         THEN [res |-> "Err", file |-> WriteAt(f, off, SubSeq(buf, 1, n)),
               calls |-> <<"seek", "write_all">>, synced |-> FALSE]
         ELSE [res    |-> "Ok",
               file   |-> WriteAt(f, off, SubSeq(buf, 1, PageUnits)),
               calls  |-> <<"seek", "write_all">>,
               synced |-> FALSE]

\* PagedFile::write_page; a failing write_all has written n units.  calls
\* lists the file calls issued, in order; synced tells whether sync_data
\* completed
PagedFile_write_page(f, page_number, buf, fail, n) ==
    LET off == page_number * PageUnits IN
    IF fail = "seek"
    THEN [res |-> "Err", file |-> f, calls |-> <<"seek">>, synced |-> FALSE]
    ELSE IF fail = "write"
         THEN [res |-> "Err", file |-> WriteAt(f, off, SubSeq(buf, 1, n)),
               calls |-> <<"seek", "write_all">>, synced |-> FALSE]
         ELSE [res    |-> IF fail = "sync" THEN "Err" ELSE "Ok",
               file   |-> WriteAt(f, off, SubSeq(buf, 1, PageUnits)),
               calls  |-> <<"seek", "write_all", "sync_data">>,
               synced |-> fail # "sync"]

\* an append that derives the page number from the offset after the write
PagedFile_append_page_late(f, buf, fail, n) ==
    LET offset == Len(f)
        pageno == (offset + PageUnits) \div PageUnits
    IN
    IF fail = "seek"
    THEN [res |-> "Err", file |-> f, pageno |-> None,
          calls |-> <<"seek">>, synced |-> FALSE]
    ELSE IF fail = "write"
         THEN [res |-> "Err", pageno |-> None,
               file |-> WriteAt(f, offset, SubSeq(buf, 1, n)),
               calls |-> <<"seek", "write_all">>, synced |-> FALSE]
         ELSE [res    |-> IF fail = "sync" THEN "Err" ELSE "Ok",
               pageno |-> IF fail = "sync" THEN None ELSE pageno,
               file   |-> WriteAt(f, offset, SubSeq(buf, 1, PageUnits)),
               calls  |-> <<"seek", "write_all", "sync_data">>,
               synced |-> fail # "sync"]

\* PagedFile::append_page: the page number is the end-of-file offset divided
\* by the page size, whatever the remainder
PagedFile_append_page(f, buf, fail, n) ==
    LET offset == Len(f)
        pageno == offset \div PageUnits
    IN
    IF fail = "seek"
    THEN [res |-> "Err", file |-> f, pageno |-> None,
          calls |-> <<"seek">>, synced |-> FALSE]
    ELSE IF fail = "write"
         THEN [res |-> "Err", pageno |-> None,
               file |-> WriteAt(f, offset, SubSeq(buf, 1, n)),
               calls |-> <<"seek", "write_all">>, synced |-> FALSE]
         ELSE [res    |-> IF fail = "sync" THEN "Err" ELSE "Ok",
               pageno |-> IF fail = "sync" THEN None ELSE pageno,
               file   |-> WriteAt(f, offset, SubSeq(buf, 1, PageUnits)),
               calls  |-> <<"seek", "write_all", "sync_data">>,
               synced |-> fail # "sync"]

\* an installation that sweeps for a frame whether or not the page is
\* resident
add_to_buffer_pool_always_sweep(pt, m, fr, page_id, data) ==
    LET s   == ClockManager_sweep(m, page_id)
        rem == IF s.evicted # None THEN DOMAIN pt \ {s.evicted}
               ELSE DOMAIN pt
    IN
    [page_table |-> [k \in rem \cup {page_id} |->
                       IF k = page_id THEN s.idx ELSE pt[k]],
     manager    |-> s.manager,
     frames     |-> [fr EXCEPT ![s.idx] = data],
     frame_idx  |-> s.idx]

\* an installation that leaves the evicted page in the page table
add_to_buffer_pool_keep_evicted(pt, m, fr, page_id, data) ==
    IF page_id \in DOMAIN pt
    THEN LET frame_idx == pt[page_id] IN
         [page_table |-> pt,
          manager    |-> ClockManager_update(m, frame_idx),
          frames     |-> [fr EXCEPT ![frame_idx] = data],
          frame_idx  |-> frame_idx]
    ELSE LET s == ClockManager_sweep(m, page_id) IN
         [page_table |-> [k \in DOMAIN pt \cup {page_id} |->
                            IF k = page_id THEN s.idx ELSE pt[k]],
          manager    |-> s.manager,
          frames     |-> [fr EXCEPT ![s.idx] = data],
          frame_idx  |-> s.idx]

\* an installation without the final copy into the frame
add_to_buffer_pool_no_copy(pt, m, fr, page_id, data) ==
    IF page_id \in DOMAIN pt
    THEN LET frame_idx == pt[page_id] IN
         [page_table |-> pt,
          manager    |-> ClockManager_update(m, frame_idx),
          frames     |-> fr,
          frame_idx  |-> frame_idx]
    ELSE LET s   == ClockManager_sweep(m, page_id)
             rem == IF s.evicted # None THEN DOMAIN pt \ {s.evicted}
                    ELSE DOMAIN pt
         IN
         [page_table |-> [k \in rem \cup {page_id} |->
                            IF k = page_id THEN s.idx ELSE pt[k]],
          manager    |-> s.manager,
          frames     |-> fr,
          frame_idx  |-> s.idx]

\* --------------------------------------------------------- BufferPool
\* BufferPool::add_to_buffer_pool on the pool state (pt, m, fr).  The copy
\* into the frame is modelled for a frame as long as the page buffer; the
\* lengths of the two arrays are not compared here.
add_to_buffer_pool(pt, m, fr, page_id, data) ==
    IF page_id \in DOMAIN pt
    THEN LET frame_idx == pt[page_id] IN
         [page_table |-> pt,
          manager    |-> ClockManager_update(m, frame_idx),
          frames     |-> [fr EXCEPT ![frame_idx] = data],
          frame_idx  |-> frame_idx]
    ELSE LET s   == ClockManager_sweep(m, page_id)
             rem == IF s.evicted # None THEN DOMAIN pt \ {s.evicted}
                    ELSE DOMAIN pt
         IN
         [page_table |-> [k \in rem \cup {page_id} |->
                            IF k = page_id THEN s.idx ELSE pt[k]],
          manager    |-> s.manager,
          frames     |-> [fr EXCEPT ![s.idx] = data],
          frame_idx  |-> s.idx]

\* the pool as one value: BufferPool { page_table, manager, frames, storage }
Pool == [page_table |-> page_table, manager |-> manager, frames |-> frames,
         storage |-> file]

\* BufferPool::new over a paged file
BufferPool_new(storage, size) ==
    [page_table |-> [k \in {} |-> 0],
     manager    |-> ClockManager_new(size),
     frames     |-> [i \in 0..(size - 1) |-> Buffer_with_value(0)],
     storage    |-> storage]

\* a read that goes to the file for a resident page too
BufferPool_read_page_refetch(s, page_id, fail) ==
    LET r == PagedFile_read_page(s.storage, page_id, fail) IN
    IF r.res = "Err" THEN [pool |-> s, res |-> "Err", out |-> <<>>]
    ELSE LET a == add_to_buffer_pool(s.page_table, s.manager, s.frames,
                                     page_id, r.buf)
         IN [pool |-> [page_table |-> a.page_table,
                       manager    |-> a.manager,
                       frames     |-> a.frames,
                       storage    |-> s.storage],
             res  |-> "Ok",
             out  |-> r.buf]

\* a read that picks the frame before the file has been read
BufferPool_read_page_install_first(s, page_id, fail) ==
    IF page_id \in DOMAIN s.page_table
    THEN LET frame_idx == s.page_table[page_id] IN
         [pool |-> [s EXCEPT !.manager = ClockManager_update(@, frame_idx)],
          res  |-> "Ok",
          out  |-> s.frames[frame_idx]]
    ELSE LET r == PagedFile_read_page(s.storage, page_id, fail)
             a == add_to_buffer_pool(s.page_table, s.manager, s.frames,
                                     page_id, s.frames[s.manager.idx])
         IN [pool |-> [page_table |-> a.page_table,
                       manager    |-> a.manager,
                       frames     |-> IF r.res = "Err" THEN a.frames
                                      ELSE [a.frames EXCEPT
                                              ![a.frame_idx] = r.buf],
                       storage    |-> s.storage],
             res  |-> r.res,
             out  |-> r.buf]

\* BufferPool::read_page: the pool afterwards, the result and the caller's
\* buffer
BufferPool_read_page(s, page_id, fail) ==
    IF page_id \in DOMAIN s.page_table
    THEN LET frame_idx == s.page_table[page_id] IN
         [pool |-> [s EXCEPT !.manager = ClockManager_update(@, frame_idx)],
          res  |-> "Ok",
          out  |-> s.frames[frame_idx]]
    ELSE LET r == PagedFile_read_page(s.storage, page_id, fail) IN
         IF r.res = "Err" THEN [pool |-> s, res |-> "Err", out |-> <<>>]
         ELSE LET a == add_to_buffer_pool(s.page_table, s.manager, s.frames,
                                          page_id, r.buf)
              IN [pool |-> [page_table |-> a.page_table,
                            manager    |-> a.manager,
                            frames     |-> [a.frames EXCEPT
                                              ![a.frame_idx] = r.buf],
                            storage    |-> s.storage],
                  res  |-> "Ok",
                  out  |-> r.buf]

\* an append that installs the page under the id it expects, whatever the
\* paged file answers
BufferPool_append_page_install_first(s, aligned_data, fail, n) ==
    LET w == PagedFile_append_page(s.storage, aligned_data, fail, n)
        a == add_to_buffer_pool(s.page_table, s.manager, s.frames,
                                Len(s.storage) \div PageUnits, aligned_data)
    IN [pool |-> [page_table |-> a.page_table,
                  manager    |-> a.manager,
                  frames     |-> a.frames,
                  storage    |-> w.file],
        res  |-> w.res,
        ret  |-> w.pageno]

\* BufferPool::append_page
BufferPool_append_page(s, aligned_data, fail, n) ==
    LET w == PagedFile_append_page(s.storage, aligned_data, fail, n) IN
    IF w.res = "Err"
    THEN [pool |-> [s EXCEPT !.storage = w.file], res |-> "Err", ret |-> None]
    ELSE LET a == add_to_buffer_pool(s.page_table, s.manager, s.frames,
                                     w.pageno, aligned_data)
         IN [pool |-> [page_table |-> a.page_table,
                       manager    |-> a.manager,
                       frames     |-> a.frames,
                       storage    |-> w.file],
             res  |-> "Ok",
             ret  |-> w.pageno]

\* an update that only forwards to the paged file
BufferPool_update_page_write_only(s, page_id, data, fail, n) ==
    LET w == PagedFile_write_page(s.storage, page_id, data, fail, n)
    IN [pool |-> [s EXCEPT !.storage = w.file], res |-> w.res]

\* BufferPool::update_page
BufferPool_update_page(s, page_id, data, fail, n) ==
    LET a == add_to_buffer_pool(s.page_table, s.manager, s.frames,
                                page_id, data)
        w == PagedFile_write_page(s.storage, page_id, data, fail, n)
    IN [pool |-> [page_table |-> a.page_table,
                  manager    |-> a.manager,
                  frames     |-> a.frames,
                  storage    |-> w.file],
        res  |-> w.res]

\* ------------------------------------------------------ history helpers
\* number of whole pages in the file
NumPages(f) == Len(f) \div PageUnits

\* page p lies wholly inside the file
PageExists(f, p) == (p + 1) * PageUnits <= Len(f)

\* the call of the paged file that is made to fail, if any: the seek, the
\* read_exact, or the sync_data after a complete write_all.  (A write_all
\* that fails half way is an input of the paged file's operators; the pool
\* actions below do not inject it.)
ReadFaults  == {"none", "seek", "read"}
WriteFaults == {"none", "seek", "sync"}

SetPool(s) ==
    /\ page_table' = s.page_table
    /\ manager' = s.manager
    /\ frames' = s.frames
    /\ file' = s.storage

Faulted(fail) == [flags EXCEPT !.faults = IF fail # "none" THEN @ + 1 ELSE @]

\* ------------------------------------------------- buffer pool actions
\* (what has reached the disk is followed for the paged file on its own,
\* in SpecFile; the pool actions leave disk alone)
\* BufferPool::new over a newly created, empty file
Init ==
    /\ \E size \in 1..MaxFrames :
         LET s == BufferPool_new(<<>>, size) IN
         /\ page_table = s.page_table
         /\ manager = s.manager
         /\ frames = s.frames
         /\ file = s.storage
    /\ disk = <<>>
    /\ last = NoOp
    /\ LayersUnused
    /\ returned = <<>>
    /\ expect = [p \in PageIds |-> None]
    /\ flags = [faults |-> 0, appendFailed |-> FALSE, grew |-> FALSE,
                updated |-> FALSE]
    /\ touched = {}
    /\ order = <<>>
    /\ page = <<>>
    /\ records = <<>>

\* a call of BufferPool::read_page
ReadPage ==
    \E page_id \in PageIds, fail \in ReadFaults :
      /\ fail # "none" => /\ flags.faults < MaxFaults
                          /\ page_id \notin DOMAIN page_table
      /\ LET r == BufferPool_read_page(Pool, page_id, fail) IN
         /\ SetPool(r.pool)
         /\ last' = [NoOp EXCEPT !.op = "read_page", !.res = r.res]
      /\ flags' = Faulted(fail)
      /\ UNCHANGED <<layerVars,
                     disk, returned, expect, touched, order,
                     page, records>>

\* a call of BufferPool::append_page.  The expectation for the returned page
\* is recorded when the page was written at a page boundary.  A write_all
\* that fails has written part of the page.
AppendPage ==
    \E d \in Data, fail \in WriteFaults \cup {"write"} :
      LET n == PageUnits - 1 IN
        /\ Len(file) + PageUnits <= MaxPages * PageUnits
        /\ fail # "none" => flags.faults < MaxFaults
        /\ LET r == BufferPool_append_page(Pool, Buffer_with_value(d), fail, n)
           IN
           /\ SetPool(r.pool)
           /\ last' = [NoOp EXCEPT !.op = "append_page", !.res = r.res]
           /\ returned' = IF r.res = "Ok" THEN Append(returned, r.ret)
                          ELSE returned
           /\ expect' = IF r.res = "Ok"
                        THEN [expect EXCEPT ![r.ret] =
                                IF Len(file) % PageUnits = 0 THEN d ELSE None]
                        ELSE expect
           /\ flags' = [Faulted(fail) EXCEPT
                          !.appendFailed = @ \/ r.res = "Err"]
        /\ UNCHANGED <<layerVars,
                     disk, touched, order,
                     page, records>>

\* a call of BufferPool::update_page, with any page id
UpdatePage ==
    \E page_id \in PageIds, d \in Data, fail \in WriteFaults :
      LET n == 0 IN
        /\ fail # "none" => flags.faults < MaxFaults
        /\ LET r == BufferPool_update_page(Pool, page_id, Buffer_with_value(d),
                                           fail, n)
           IN
           /\ SetPool(r.pool)
           /\ last' = [NoOp EXCEPT !.op = "update_page", !.res = r.res]
           /\ expect' = [expect EXCEPT
                           ![page_id] = IF r.res = "Ok" THEN d ELSE None]
        /\ flags' = [Faulted(fail) EXCEPT
                       !.grew = @ \/ ~PageExists(file, page_id)]
        /\ UNCHANGED <<layerVars,
                     disk, returned, touched, order,
                     page, records>>

Next == ReadPage \/ AppendPage \/ UpdatePage

Spec == Init /\ [][Next]_vars

\* ------------------------------------------- a clock manager on its own
\* ClockManager::new(size); the pool variables are not used
InitClock ==
    /\ \E size \in 1..MaxClock : manager = ClockManager_new(size)
    /\ page_table = [k \in {} |-> 0]
    /\ frames = [i \in {} |-> <<>>]
    /\ file = <<>>
    /\ disk = <<>>
    /\ last = NoOp
    /\ LayersUnused
    /\ returned = <<>>
    /\ expect = [p \in PageIds |-> None]
    /\ flags = [faults |-> 0, appendFailed |-> FALSE, grew |-> FALSE,
                updated |-> FALSE]
    /\ touched = {}
    /\ order = <<>>
    /\ page = <<>>
    /\ records = <<>>

\* a call of ClockManager::update
ClockUpdate ==
    \E i \in DOMAIN manager.clock :
      /\ manager' = ClockManager_update(manager, i)
      /\ last' = [NoOp EXCEPT !.op = "update", !.arg = i, !.pre = manager]
      /\ touched' = touched \cup {i}
      /\ flags' = [flags EXCEPT !.updated = TRUE]
      /\ order' = <<>>
      /\ UNCHANGED <<layerVars,
                     page_table, frames, file, disk, returned, expect,
                     page, records>>

\* a call of ClockManager::sweep
ClockSweep ==
    \E key \in Keys :
      LET s    == ClockManager_sweep(manager, key)
          size == Cardinality(DOMAIN manager.clock)
      IN
      /\ manager' = s.manager
      /\ last' = [NoOp EXCEPT !.op = "sweep", !.arg = key, !.ret = s.idx,
                              !.evicted = s.evicted, !.pre = manager,
                              !.spared = touched, !.queue = order]
      /\ touched' = {}
      /\ order' = IF flags.updated THEN <<>>
                  ELSE IF Len(order) < size THEN Append(order, key)
                  ELSE Append(Tail(order), key)
      /\ UNCHANGED <<layerVars,
                     page_table, frames, file, disk, returned, expect,
                     flags,
                     page, records>>

NextClock == ClockUpdate \/ ClockSweep

SpecClock == InitClock /\ [][NextClock]_vars


\* --------------------------------------------- a paged file on its own
\* PagedFile::from_path on a newly created, empty file
InitFile ==
    /\ file = <<>>
    /\ disk = <<>>
    /\ manager = ClockManager_new(0)
    /\ page_table = [k \in {} |-> 0]
    /\ frames = [i \in {} |-> <<>>]
    /\ last = NoOp
    /\ LayersUnused
    /\ returned = <<>>
    /\ expect = [p \in PageIds |-> None]
    /\ flags = [faults |-> 0, appendFailed |-> FALSE, grew |-> FALSE,
                updated |-> FALSE]
    /\ touched = {}
    /\ order = <<>>
    /\ page = <<>>
    /\ records = <<>>

\* the failures of write_all and sync_data; a failing write_all has
\* written TornUnits(fail) units of the page
FileWriteFaults == {"none", "seek", "write", "sync"}
TornUnits(fail) == IF fail = "write" THEN PageUnits - 1 ELSE 0

\* a call of PagedFile::read_page
FileRead ==
    \E page_number \in PageIds, fail \in ReadFaults :
      /\ fail # "none" => flags.faults < MaxFaults
      /\ LET r == PagedFile_read_page(file, page_number, fail) IN
         last' = [NoOp EXCEPT !.op = "read_page", !.res = r.res,
                              !.arg = page_number, !.pre = file]
      /\ flags' = Faulted(fail)
      /\ UNCHANGED <<layerVars,
                     file, disk, returned, expect, manager, page_table,
                     frames, touched, order,
                     page, records>>

\* a call of PagedFile::write_page, with any page number
FileWrite ==
    \E page_number \in PageIds, d \in Data, fail \in FileWriteFaults :
      /\ fail # "none" => flags.faults < MaxFaults
      /\ LET r == PagedFile_write_page(file, page_number, Buffer_with_value(d),
                                       fail, TornUnits(fail))
         IN
         /\ file' = r.file
         /\ disk' = IF r.synced THEN r.file ELSE disk
         /\ last' = [NoOp EXCEPT !.op = "write_page", !.res = r.res,
                                 !.arg = page_number, !.pre = file,
                                 !.calls = r.calls]
         /\ expect' = [expect EXCEPT
                         ![page_number] = IF r.res = "Ok" THEN d ELSE None]
      /\ flags' = [Faulted(fail) EXCEPT
                     !.grew = @ \/ ~PageExists(file, page_number)]
      /\ UNCHANGED <<layerVars,
                     returned, manager, page_table, frames, touched, order,
                     page, records>>

\* a call of PagedFile::append_page
FileAppend ==
    \E d \in Data, fail \in FileWriteFaults :
      /\ Len(file) + PageUnits <= MaxPages * PageUnits
      /\ fail # "none" => flags.faults < MaxFaults
      /\ LET r == PagedFile_append_page(file, Buffer_with_value(d), fail,
                                        TornUnits(fail))
         IN
         /\ file' = r.file
         /\ disk' = IF r.synced THEN r.file ELSE disk
         /\ last' = [NoOp EXCEPT !.op = "append_page", !.res = r.res,
                                 !.ret = r.pageno, !.pre = file,
                                 !.calls = r.calls]
         /\ returned' = IF r.res = "Ok" THEN Append(returned, r.pageno)
                        ELSE returned
         /\ expect' = IF r.res = "Ok"
                      THEN [expect EXCEPT ![r.pageno] = d]
                      ELSE expect
         /\ flags' = [Faulted(fail) EXCEPT
                        !.appendFailed = @ \/ r.res = "Err"]
      /\ UNCHANGED <<layerVars,
                     manager, page_table, frames, touched, order,
                     page, records>>

NextFile == FileRead \/ FileWrite \/ FileAppend

SpecFile == InitFile /\ [][NextFile]_vars


\* -------------------------------------------------------- SlottedPage
\* u16::to_le_bytes and u16::from_le_bytes
to_le_bytes(v) == <<v % ByteBase, (v \div ByteBase) % ByteBase>>
from_le_bytes(b) == b[1] + ByteBase * b[2]

\* data[a..b]
Slice(pg, a, b) == [i \in 1..(b - a) |-> pg[a + i - 1]]

\* data[at..at + len].copy_from_slice(bytes)
CopyInto(pg, at, bytes) ==
    [i \in DOMAIN pg |->
       IF i >= at /\ i < at + Len(bytes) THEN bytes[i - at + 1] ELSE pg[i]]

end_of_free_space(pg) == from_le_bytes(Slice(pg, 0, 2))
record_count(pg) == from_le_bytes(Slice(pg, 2, 4))

\* slots of two bytes, so that neighbouring slots overlap
record_header_offset_packed(recno) == (4 + 2 * recno) % Word

record_header_offset(recno) == (4 + 4 * recno) % Word

\* a header size that leaves the slot directory out
header_size_fixed(pg) == 2 + 2

header_size(pg) == (2 + 2 + 4 * record_count(pg)) % Word

\* available_bytes, with the subtraction wrapping as in a build without
\* overflow checks
available_bytes(pg) ==
    (end_of_free_space(pg) - header_size(pg) + Word) % Word

free_space(pg) == available_bytes(pg)

write_end_of_free_space(pg, offset) == CopyInto(pg, 0, to_le_bytes(offset))
write_record_count(pg, new_count) == CopyInto(pg, 2, to_le_bytes(new_count))
write_record_header(pg, recno, offset, size) ==
    LET rho == record_header_offset(recno) IN
    CopyInto(CopyInto(pg, rho, to_le_bytes(offset)), rho + 2, to_le_bytes(size))
write_record_at(pg, offset, record) == CopyInto(pg, offset, record)

\* record_header: Some((offset, size)) or None
record_header(pg, recno) ==
    IF recno < record_count(pg)
    THEN LET rho == record_header_offset(recno) IN
         [some   |-> TRUE,
          offset |-> from_le_bytes(Slice(pg, rho, rho + 2)),
          size   |-> from_le_bytes(Slice(pg, rho + 2, rho + 4))]
    ELSE [some |-> FALSE, offset |-> 0, size |-> 0]

\* SlottedPage::get_record: the bytes of the record, or None
get_record(pg, recno) ==
    LET h == record_header(pg, recno) IN
    IF ~h.some THEN [some |-> FALSE, bytes |-> <<>>]
    ELSE [some |-> TRUE, bytes |-> Slice(pg, h.offset, h.offset + h.size)]

\* SlottedPage::default
SlottedPage_default ==
    write_end_of_free_space([i \in 0..(PAGESIZE - 1) |-> 0], PAGESIZE % Word)

\* an insert that asks for room for the record only, not for its slot
insert_record_no_slot(pg, record, checks) ==
    LET recno  == record_count(pg)
        reclen == Len(record)
    IN
    IF reclen > available_bytes(pg)
    THEN [res |-> "Err", page |-> pg, ret |-> None]
    ELSE LET pg1    == write_record_count(pg, recno + 1)
             offset == end_of_free_space(pg1) - reclen
             pg3    == write_end_of_free_space(
                         write_record_header(pg1, recno, offset, reclen),
                         offset)
         IN [res |-> "Ok", page |-> write_record_at(pg3, offset, record),
             ret |-> recno]

\* an insert that puts every record at the end of the page
insert_record_at_end(pg, record, checks) ==
    LET recno  == record_count(pg)
        reclen == Len(record)
    IN
    IF reclen + 4 > available_bytes(pg)
    THEN [res |-> "Err", page |-> pg, ret |-> None]
    ELSE LET pg1    == write_record_count(pg, recno + 1)
             offset == PAGESIZE - reclen
             pg3    == write_end_of_free_space(
                         write_record_header(pg1, recno, offset, reclen),
                         end_of_free_space(pg1) - reclen)
         IN [res |-> "Ok", page |-> write_record_at(pg3, offset, record),
             ret |-> recno]

\* an insert that counts the record before it finds out that there is no
\* room for it
insert_record_count_first(pg, record, checks) ==
    LET r == insert_record_at_end(pg, record, checks) IN
    IF r.res = "Err"
    THEN [r EXCEPT !.page = write_record_count(pg, record_count(pg) + 1)]
    ELSE r

\* SlottedPage::insert_record.  checks tells whether the build panics on
\* integer overflow (it wraps otherwise); an index out of range panics in
\* every build.  A panic leaves the page as written so far.
insert_record(pg, record, checks) ==
    LET recno == record_count(pg)
        Panic(p) == [res |-> "Panic", page |-> p, ret |-> None]
    IN
    IF Len(record) >= Word
    THEN [res |-> "Err", page |-> pg, ret |-> None]
    ELSE
    LET reclen == Len(record) IN
    IF checks /\ reclen + 4 >= Word THEN Panic(pg)
    ELSE IF checks /\ end_of_free_space(pg) < header_size(pg) THEN Panic(pg)
    ELSE IF (reclen + 4) % Word > available_bytes(pg)
    THEN [res |-> "Err", page |-> pg, ret |-> None]
    ELSE
    LET pg1 == write_record_count(pg, (recno + 1) % Word) IN
    IF checks /\ end_of_free_space(pg1) < reclen THEN Panic(pg1)
    ELSE
    LET offset == (end_of_free_space(pg1) - reclen + Word) % Word
        size   == reclen
    IN
    IF record_header_offset(recno) + 4 > PAGESIZE THEN Panic(pg1)
    ELSE
    LET pg3 == write_end_of_free_space(
                 write_record_header(pg1, recno, offset, size), offset)
    IN
    IF offset + Len(record) > PAGESIZE THEN Panic(pg3)
    ELSE [res  |-> "Ok",
          page |-> write_record_at(pg3, offset, record),
          ret  |-> recno]

\* the records handed to insert_record: len bytes that differ from their
\* neighbours
Record(len, fill) == [i \in 1..len |-> (fill + i) % ByteBase]
Fills == {1, 2}
RecordLens == (0..MaxRecord) \cup ((Word - 4)..Word)

\* ------------------------------------------- a slotted page on its own
InitPage ==
    /\ page = SlottedPage_default
    /\ records = <<>>
    /\ last = NoOp
    /\ LayersUnused
    /\ manager = ClockManager_new(0)
    /\ page_table = [k \in {} |-> 0]
    /\ frames = [i \in {} |-> <<>>]
    /\ file = <<>>
    /\ disk = <<>>
    /\ returned = <<>>
    /\ expect = [p \in PageIds |-> None]
    /\ flags = [faults |-> 0, appendFailed |-> FALSE, grew |-> FALSE,
                updated |-> FALSE]
    /\ touched = {}
    /\ order = <<>>

\* a call of SlottedPage::insert_record; nothing is called after a panic
InsertRecord ==
    \E len \in RecordLens, fill \in Fills, checks \in BOOLEAN :
      LET r == insert_record(page, Record(len, fill), checks) IN
      /\ last.res # "Panic"
      /\ page' = r.page
      /\ records' = IF r.res = "Ok"
                    THEN Append(records,
                                [bytes |-> Record(len, fill), id |-> r.ret,
                                 eofs  |-> end_of_free_space(page)])
                    ELSE records
      /\ last' = [NoOp EXCEPT !.op = "insert_record", !.res = r.res,
                              !.ret = r.ret, !.pre = page,
                              !.rec = Record(len, fill)]
      /\ UNCHANGED <<layerVars,
                     manager, page_table, frames, file, disk, returned,
                     expect, flags, touched, order>>

\* a call of SlottedPage::get_record
GetRecord ==
    \E recno \in 0..(record_count(page) + 1) :
      LET g == get_record(page, recno) IN
      /\ last.res # "Panic"
      /\ last' = [NoOp EXCEPT !.op = "get_record", !.arg = recno,
                              !.res = IF g.some THEN "Some" ELSE "None",
                              !.rec = g.bytes, !.pre = page]
      /\ UNCHANGED <<layerVars,
                     page, records, manager, page_table, frames, file, disk,
                     returned, expect, flags, touched, order>>

NextPage == InsertRecord \/ GetRecord

SpecPage == InitPage /\ [][NextPage]_vars


\* -------------------------------------------------- hash page codec
\* The hash page is modelled in true bytes (0..255) with the tags of
\* lib.rs; its buffer is PageBytes long, the header of 0x18 bytes and one
\* slot of a key and an eight-byte value.  A u32 is kept as its four
\* little-endian bytes.
PageBytes == 40
Byte      == 256

\* PageType, repr(u16)
MasterRecord            == 0
DataPage                == 4096
SinglePageHashTable     == 8192
HashTableFixedWidthSlot == 8193
PageTypes == {MasterRecord, DataPage, SinglePageHashTable,
              HashTableFixedWidthSlot}

\* HashAlgorithm::XxHash
XxHash == 0

\* size_of::<Page<V>>(), a Box and a PhantomData, and size_of::<Buffer>()
size_of_Page   == 8
size_of_Buffer == PageBytes

MaxSeed == 2        \* hash seeds SeedOf(0)..SeedOf(MaxSeed)
SeedOf(s) == Byte * s + 2 * s + 1
Seeds == {SeedOf(s) : s \in 0..MaxSeed}

\* size_of::<V>() of the value types tried: (), (i32, i32), (usize, usize)
\* and an array above the limit of set_value_size
ValueSizes == {0, 8, 16, 4097}

\* the n little-endian bytes of v
RECURSIVE le_bytes(_, _)
le_bytes(v, n) ==
    IF n = 0 THEN <<>> ELSE <<v % Byte>> \o le_bytes(v \div Byte, n - 1)

\* the value of little-endian bytes
RECURSIVE le_value(_)
le_value(b) == IF b = <<>> THEN 0 ELSE Head(b) + Byte * le_value(Tail(b))

read_u16(s) == le_value(s)
read_u64(s) == le_value(s)

\* bitwise exclusive or of two naturals
RECURSIVE Xor(_, _)
Xor(a, b) ==
    IF a = 0 THEN b
    ELSE IF b = 0 THEN a
    ELSE ((a + b) % 2) + 2 * Xor(a \div 2, b \div 2)

\* 0xEDB88320, the reflected CRC-32/IEEE polynomial, as two u16 halves
CrcPolyHi == 60856
CrcPolyLo == 33568
Half      == Byte * Byte

\* one step of the bitwise CRC on the register [hi, lo]: shift right and
\* subtract the polynomial when a one was shifted out
CrcShift(c) ==
    LET hi == c.hi \div 2
        lo == c.lo \div 2 + (Half \div 2) * (c.hi % 2)
    IN IF c.lo % 2 = 1
       THEN [hi |-> Xor(hi, CrcPolyHi), lo |-> Xor(lo, CrcPolyLo)]
       ELSE [hi |-> hi, lo |-> lo]

RECURSIVE CrcShifts(_, _)
CrcShifts(c, n) == IF n = 0 THEN c ELSE CrcShifts(CrcShift(c), n - 1)

\* the CRC register after byte v
CrcByte(c, v) == CrcShifts([hi |-> c.hi, lo |-> Xor(c.lo, v)], 8)

\* the CRC register after bytes[a..b], from register c.  The register is
\* a u32; testing that in the middle has TLC evaluate the first half
\* before the second is begun, which keeps the evaluation shallow.
RECURSIVE CrcRange(_, _, _, _)
CrcRange(c, bytes, a, b) ==
    IF a > b THEN c
    ELSE IF a = b THEN CrcByte(c, bytes[a])
    ELSE LET m == (a + b) \div 2
             l == CrcRange(c, bytes, a, m)
         IN IF l.hi < Half /\ l.lo < Half
            THEN CrcRange(l, bytes, m + 1, b)
            ELSE l

\* crc32::checksum_ieee followed by u32::to_le_bytes: the register is
\* preset to ones and complemented at the end
checksum_ieee(bytes) ==
    LET c  == CrcRange([hi |-> Half - 1, lo |-> Half - 1], bytes, 1,
                       Len(bytes))
        hi == Half - 1 - c.hi
        lo == Half - 1 - c.lo
    IN <<lo % Byte, lo \div Byte, hi % Byte, hi \div Byte>>

\* aligned::check_crc; the two u32 are compared byte by byte
check_crc(buffer) ==
    checksum_ieee(Slice(buffer, 4, PageBytes)) = Slice(buffer, 0, 4)

\* aligned::Buffer::new
Buffer_new == [i \in 0..(PageBytes - 1) |-> 0]

\* Page::page_type
Page_page_type == SinglePageHashTable

\* Page::set_page_type: the tag as a u32 over buffer[4..8]
set_page_type(buffer) == CopyInto(buffer, 4, le_bytes(Page_page_type, 4))

\* Page::set_crc
set_crc(buffer) ==
    CopyInto(buffer, 0, checksum_ieee(Slice(buffer, 4, PageBytes)))

\* Page::value_size
value_size(buffer) == read_u16(Slice(buffer, 8, 10))

\* Page::set_value_size, past its assertion
set_value_size(buffer, size) ==
    CopyInto(buffer, 8, le_bytes(size % (Byte * Byte), 2))

\* Page::hash_seed and Page::set_hash_seed
hash_seed(buffer) == read_u64(Slice(buffer, 16, 24))
set_hash_seed(buffer, seed) == CopyInto(buffer, 16, le_bytes(seed, 8))

\* Page::hash_algorithm and Page::set_hash_algorithm
hash_algorithm(buffer) ==
    IF read_u16(Slice(buffer, 8, 10)) = 0
    THEN [res |-> "Ok", algorithm |-> XxHash]
    ELSE [res |-> "Err", algorithm |-> None]
set_hash_algorithm(buffer, algorithm) ==
    CopyInto(buffer, 8, le_bytes(algorithm % (Byte * Byte), 2))

\* Page::<V>::new(hash_seed) for a V of vsize bytes; set_value_size panics
\* above 4096
Page_new(seed, vsize) ==
    LET p1 == set_page_type(Buffer_new) IN
    IF vsize > 4096 THEN [res |-> "Panic", buffer |-> p1]
    ELSE [res    |-> "Ok",
          buffer |-> set_hash_seed(
                       set_hash_algorithm(set_value_size(p1, vsize), XxHash),
                       seed)]

\* a serialisation that leaves the checksum field as it is
into_aligned_no_crc(buffer, debug) ==
    IF debug /\ size_of_Page # PageBytes
    THEN [res |-> "Panic", buffer |-> buffer]
    ELSE [res |-> "Ok", buffer |-> buffer]

\* Page::into_aligned; debug tells whether debug assertions are compiled
\* in.  The first of them compares size_of::<Self>() with PAGESIZE.
into_aligned(buffer, debug) ==
    IF debug /\ size_of_Page # PageBytes
    THEN [res |-> "Panic", buffer |-> buffer]
    ELSE [res    |-> "Ok",
          buffer |-> CopyInto(buffer, 0,
                              checksum_ieee(Slice(buffer, 4, PageBytes)))]

\* what the unchecked conversion of lib.rs may give for a u16 that is no
\* discriminant of PageType: the number itself or any variant
UbOutcomes(val) == IF val \in PageTypes THEN {val} ELSE PageTypes \cup {val}

\* impl From<u16> for PageType (a transmute), reached through try_into,
\* which cannot fail; ub is the outcome for an unknown tag
PageType_from(val, ub) == IF val \in PageTypes THEN val ELSE ub

\* Page::expected_page_type
expected_page_type == SinglePageHashTable

\* FromAligned::from_aligned for Page<V>; transform wraps the buffer
from_aligned(buffer, ub) ==
    LET page_type == PageType_from(read_u16(Slice(buffer, 4, 6)), ub) IN
    IF ~check_crc(buffer) THEN [res |-> "CrcError", buffer |-> <<>>]
    ELSE IF size_of_Page # size_of_Buffer
    THEN [res |-> "SizeError", buffer |-> <<>>]
    ELSE IF page_type # expected_page_type
    THEN [res |-> "PageType", buffer |-> <<>>]
    ELSE [res |-> "Ok", buffer |-> buffer]

\* tags that are no discriminant of PageType
UnknownTags == {1, SinglePageHashTable + 2, Half - 1}

\* a buffer as read_page may deliver it: a hash page with the given tag at
\* [4..6) and a checksum that is right or stale
FilePageBuffer(seed, tag, valid) ==
    LET b == set_crc(CopyInto(Page_new(seed, 16).buffer, 4, le_bytes(tag, 2)))
    IN IF valid THEN b ELSE CopyInto(b, 0, <<(b[0] + 1) % Byte>>)

\* the variables of the pool and of the slotted page, not used
LowerUnused ==
    /\ manager = ClockManager_new(0)
    /\ page_table = [k \in {} |-> 0]
    /\ frames = [i \in {} |-> <<>>]
    /\ file = <<>>
    /\ disk = <<>>
    /\ returned = <<>>
    /\ expect = [p \in PageIds |-> None]
    /\ flags = [faults |-> 0, appendFailed |-> FALSE, grew |-> FALSE,
                updated |-> FALSE]
    /\ touched = {}
    /\ order = <<>>
    /\ page = <<>>
    /\ records = <<>>

lowerVars == <<manager, page_table, frames, file, disk, returned, expect,
               flags, touched, order, page, records>>

\* ---------------------------------------------- a hash page on its own
InitHashPage ==
    /\ LayersUnused
    /\ LowerUnused
    /\ last = NoOp

\* a call of Page::<V>::new
PageNew ==
    \E s \in 0..MaxSeed, vsize \in ValueSizes :
      /\ last.res # "Panic"
      /\ \E r \in {Page_new(SeedOf(s), vsize)} :
           /\ hpage' = IF r.res = "Ok"
                       THEN [is |-> "Page", buffer |-> r.buffer]
                       ELSE NoPage
           /\ last' = [NoOp EXCEPT !.op = "Page_new", !.res = r.res,
                                   !.arg = SeedOf(s), !.ret = vsize]
      /\ UNCHANGED <<lowerVars, table, inserted, current_page, call>>

\* a call of Page::set_hash_seed
SetHashSeed ==
    \E s \in 0..MaxSeed :
      /\ last.res # "Panic"
      /\ hpage.is = "Page"
      /\ hpage' = [hpage EXCEPT !.buffer = set_hash_seed(@, SeedOf(s))]
      /\ last' = [NoOp EXCEPT !.op = "set_hash_seed", !.arg = SeedOf(s),
                              !.pre = hpage.buffer]
      /\ UNCHANGED <<lowerVars, table, inserted, current_page, call>>

\* a call of Page::into_aligned, which consumes the page
IntoAligned ==
    \E debug \in BOOLEAN :
      /\ last.res # "Panic"
      /\ hpage.is = "Page"
      /\ \E r \in {into_aligned(hpage.buffer, debug)} :
           /\ hpage' = IF r.res = "Ok"
                       THEN [is |-> "Buffer", buffer |-> r.buffer]
                       ELSE NoPage
           /\ last' = [NoOp EXCEPT !.op = "into_aligned", !.res = r.res,
                                   !.pre = hpage.buffer]
      /\ UNCHANGED <<lowerVars, table, inserted, current_page, call>>

\* a buffer arrives from a file
LoadBuffer ==
    \E s \in 0..MaxSeed, tag \in PageTypes \cup UnknownTags,
       valid \in BOOLEAN :
      /\ last.res # "Panic"
      /\ hpage' = [is |-> "Buffer",
                   buffer |-> FilePageBuffer(SeedOf(s), tag, valid)]
      /\ last' = [NoOp EXCEPT !.op = "load", !.arg = tag]
      /\ UNCHANGED <<lowerVars, table, inserted, current_page, call>>

\* a call of Page::<V>::from_aligned, which consumes the buffer
FromAligned ==
    /\ last.res # "Panic"
    /\ hpage.is = "Buffer"
    /\ \E ub \in UbOutcomes(read_u16(Slice(hpage.buffer, 4, 6))) :
       \E r \in {from_aligned(hpage.buffer, ub)} :
         /\ hpage' = IF r.res = "Ok"
                     THEN [is |-> "Page", buffer |-> r.buffer]
                     ELSE NoPage
         /\ last' = [NoOp EXCEPT !.op = "from_aligned", !.res = r.res,
                                 !.arg = read_u16(Slice(hpage.buffer, 4, 6)),
                                 !.pre = hpage.buffer]
    /\ UNCHANGED <<lowerVars, table, inserted, current_page, call>>

NextHashPage ==
    PageNew \/ SetHashSeed \/ IntoAligned \/ LoadBuffer \/ FromAligned

SpecHashPage == InitHashPage /\ [][NextHashPage]_vars


\* --------------------------------------------------- SinglePageHashTable
\* a page buffer cut into the storage units of the paged file, and back
Units(buffer) ==
    LET k == Cardinality(DOMAIN buffer) \div PageUnits IN
    [u \in 1..PageUnits |-> Slice(buffer, (u - 1) * k, u * k)]
Bytes(units) ==
    LET k == Len(units[1]) IN
    [i \in 0..(PageUnits * k - 1) |-> units[(i \div k) + 1][(i % k) + 1]]

\* SinglePageHashTable::capacity for a V of vsize bytes
capacity(vsize) == (PageBytes - 24) \div (8 + vsize)

\* the hash of key under the seeded XxHash64 of the twox_hash crate, which
\* is not part of the repository: some function of seed and key.  insert
\* computes a slot from it and drops it.
XxHash64(seed, key) == (31 * seed + key) % Half

\* SinglePageHashTable::new_with_rng, seed being what the generator
\* gives; a failed append_page panics in expect
new_with_rng(pool, seed, vsize, debug, fail) ==
    LET header_page == Page_new(seed, vsize)
        page_buffer == into_aligned(header_page.buffer, debug)
        a == BufferPool_append_page(pool, Units(page_buffer.buffer), fail, 0)
    IN IF header_page.res = "Panic" \/ page_buffer.res = "Panic"
       THEN [res |-> "Panic", pool |-> pool, table |-> NoTable]
       ELSE IF a.res = "Err"
       THEN [res |-> "Panic", pool |-> a.pool, table |-> NoTable]
       ELSE [res   |-> "Ok",
             pool  |-> a.pool,
             table |-> [some |-> TRUE, seed |-> seed, vsize |-> vsize,
                        page_id |-> a.ret]]

\* SinglePageHashTable::<V>::from_page
from_page(pool, page_id, vsize, fail, ub) ==
    LET r == BufferPool_read_page(pool, page_id, fail) IN
    IF r.res = "Err" THEN [res |-> "Err", pool |-> r.pool, table |-> NoTable]
    ELSE LET pg == from_aligned(Bytes(r.out), ub) IN
         IF pg.res # "Ok"
         THEN [res |-> pg.res, pool |-> r.pool, table |-> NoTable]
         ELSE [res   |-> "Ok",
               pool  |-> r.pool,
               table |-> [some |-> TRUE, seed |-> hash_seed(pg.buffer),
                          vsize |-> vsize, page_id |-> page_id]]

\* SinglePageHashTable::insert: the page is read and validated, a slot is
\* computed, and nothing is written; a failed read_page panics in expect,
\* and so does the remainder for a table without slots
insert(t, pool, key, value, fail, ub) ==
    LET r == BufferPool_read_page(pool, t.page_id, fail) IN
    IF r.res = "Err" THEN [res |-> "Panic", pool |-> r.pool]
    ELSE LET pg == from_aligned(Bytes(r.out), ub) IN
         IF pg.res # "Ok" THEN [res |-> pg.res, pool |-> r.pool]
         ELSE IF capacity(t.vsize) = 0 THEN [res |-> "Panic", pool |-> r.pool]
         ELSE LET slot == XxHash64(t.seed, key) % capacity(t.vsize) IN
              [res |-> "Ok", pool |-> r.pool]

\* SinglePageHashTable::get
get(t, key) == [some |-> FALSE, value |-> None]

\* the tag of page page_id as read_page delivers it
TagOf(pool, page_id) ==
    LET r == BufferPool_read_page(pool, page_id, "none") IN
    IF r.res = "Ok" THEN read_u16(Slice(Bytes(r.out), 4, 6))
    ELSE SinglePageHashTable

HashKeys   == {97, 25}
HashValues == {4, 12}
MaxInserts == 2     \* successful insert calls per behaviour

\* --------------------------------------------- a hash table over a pool
\* BufferPool::new over a newly created, empty file; no table yet
InitHashTable ==
    /\ \E size \in 1..MaxFrames :
         LET s == BufferPool_new(<<>>, size) IN
         /\ page_table = s.page_table
         /\ manager = s.manager
         /\ frames = s.frames
         /\ file = s.storage
    /\ disk = <<>>
    /\ last = NoOp
    /\ returned = <<>>
    /\ expect = [p \in PageIds |-> None]
    /\ flags = [faults |-> 0, appendFailed |-> FALSE, grew |-> FALSE,
                updated |-> FALSE]
    /\ touched = {}
    /\ order = <<>>
    /\ page = <<>>
    /\ records = <<>>
    /\ LayersUnused

\* a call of SinglePageHashTable::<(i32, i32)>::new; expect keeps the
\* seed stored in each page.  A fault is used up when append_page is
\* reached.
HashNew ==
    \E s \in 0..MaxSeed, debug \in BOOLEAN, fail \in {"none", "sync"} :
      /\ last.res # "Panic"
      /\ Len(file) + PageUnits <= MaxPages * PageUnits
      /\ fail # "none" => flags.faults < MaxFaults
      /\ \E r \in {new_with_rng(Pool, SeedOf(s), 8, debug, fail)} :
           /\ SetPool(r.pool)
           /\ table' = r.table
           /\ last' = [NoOp EXCEPT !.op = "hash_new", !.res = r.res,
                                   !.arg = SeedOf(s), !.ret = r.table.page_id]
           /\ returned' = IF r.res = "Ok"
                          THEN Append(returned, r.table.page_id)
                          ELSE returned
           /\ expect' = IF r.res = "Ok"
                        THEN [expect EXCEPT ![r.table.page_id] = SeedOf(s)]
                        ELSE expect
      /\ flags' = Faulted(IF debug THEN "none" ELSE fail)
      /\ UNCHANGED <<disk, touched, order, page, records, hpage, inserted,
                     current_page, call>>

\* a call of SinglePageHashTable::from_page on this pool, or on a new pool
\* over the same file
HashFromPage ==
    \E page_id \in 0..MaxPages, reopen \in BOOLEAN :
      /\ last.res # "Panic"
      /\ \E pool \in {IF reopen
                       THEN BufferPool_new(file, Cardinality(DOMAIN frames))
                       ELSE Pool} :
         \E ub \in UbOutcomes(TagOf(pool, page_id)) :
         \E r \in {from_page(pool, page_id, 8, "none", ub)} :
           /\ SetPool(r.pool)
           /\ table' = r.table
           /\ last' = [NoOp EXCEPT !.op = "from_page", !.res = r.res,
                                   !.arg = page_id, !.ret = reopen]
      /\ UNCHANGED <<disk, returned, expect, flags, touched, order, page,
                     records, hpage, inserted, current_page,
                     call>>

\* a call of SinglePageHashTable::insert; inserted keeps the pairs whose
\* insert returned Ok
HashInsert ==
    \E key \in HashKeys, value \in HashValues, fail \in ReadFaults :
      /\ last.res # "Panic"
      /\ table.some
      /\ Len(inserted) < MaxInserts
      /\ fail # "none" => /\ flags.faults < MaxFaults
                          /\ table.page_id \notin DOMAIN page_table
      /\ \E ub \in UbOutcomes(TagOf(Pool, table.page_id)) :
         \E r \in {insert(table, Pool, key, value, fail, ub)} :
           /\ SetPool(r.pool)
           /\ last' = [NoOp EXCEPT !.op = "insert", !.res = r.res,
                                   !.arg = key, !.ret = value]
           /\ inserted' = IF r.res = "Ok"
                          THEN Append(inserted,
                                      [key |-> key, value |-> value])
                          ELSE inserted
      /\ flags' = Faulted(fail)
      /\ UNCHANGED <<table, disk, returned, expect, touched, order, page,
                     records, hpage, current_page, call>>

\* a call of SinglePageHashTable::get
HashGet ==
    \E key \in HashKeys :
      LET g == get(table, key) IN
      /\ last.res # "Panic"
      /\ table.some
      /\ last' = [NoOp EXCEPT !.op = "get", !.arg = key, !.ret = g.value,
                              !.res = IF g.some THEN "Some" ELSE "None"]
      /\ UNCHANGED <<manager, page_table, frames, file, table, disk,
                     returned, expect, flags, touched, order, page, records,
                     hpage, inserted, current_page, call>>

NextHashTable == HashNew \/ HashFromPage \/ HashInsert \/ HashGet

SpecHashTable == InitHashTable /\ [][NextHashTable]_vars


\* ------------------------------------------------------- RecordManager
\* the record manager's current_page: a page id and a slotted page
Current(pid, pg) == [some |-> TRUE, pid |-> pid, pg |-> pg]

\* SlottedPage::data, as the pool files it: the page cut into storage units
data(pg) ==
    [u \in 1..PageUnits |->
       Slice(pg, (u - 1) * (PAGESIZE \div PageUnits),
                 u * (PAGESIZE \div PageUnits))]

\* the slotted page whose data is a page read through the pool
SlottedPage_from(units) ==
    [i \in 0..(PAGESIZE - 1) |->
       units[(i \div (PAGESIZE \div PageUnits)) + 1]
            [(i % (PAGESIZE \div PageUnits)) + 1]]

\* a room test that leaves the slot of the record out
has_room_no_slot(pg, record) == free_space(pg) >= Len(record)

\* the test of append_record for room in the current page, a comparison
\* of usize values that does not wrap
has_room(pg, record) == free_space(pg) >= Len(record) + 4

\* an append that keeps a record put into the current page to itself,
\* without update_page
append_record_no_update(cur, pool, record, checks, fail) ==
    IF has_room(cur.pg, record)
    THEN LET r == insert_record(cur.pg, record, checks) IN
         [res  |-> r.res,
          cur  |-> Current(cur.pid, r.page),
          pool |-> pool,
          pid  |-> IF r.res = "Ok" THEN cur.pid ELSE None,
          rid  |-> IF r.res = "Ok" THEN r.ret ELSE None]
    ELSE LET r == insert_record(SlottedPage_default, record, checks) IN
         IF r.res # "Ok"
         THEN [res |-> IF r.res = "Panic" THEN "Panic" ELSE "Err",
               cur |-> cur, pool |-> pool, pid |-> None, rid |-> None]
         ELSE LET a == BufferPool_append_page(pool, data(r.page), fail, 0)
              IN IF a.res = "Err"
                 THEN [res |-> "Err", cur |-> cur, pool |-> a.pool,
                       pid |-> None, rid |-> None]
                 ELSE [res  |-> "Ok",
                       cur  |-> Current(a.ret, r.page),
                       pool |-> a.pool,
                       pid  |-> a.ret,
                       rid  |-> r.ret]

\* RecordManager::append_record.  The page of current_page is edited in
\* place, so it keeps what insert_record wrote whatever update_page
\* answers.
append_record(cur, pool, record, checks, fail) ==
    IF has_room(cur.pg, record)
    THEN LET r == insert_record(cur.pg, record, checks) IN
         IF r.res # "Ok"
         THEN [res |-> IF r.res = "Panic" THEN "Panic" ELSE "Err",
               cur |-> Current(cur.pid, r.page),
               pool |-> pool, pid |-> None, rid |-> None]
         ELSE LET u == BufferPool_update_page(pool, cur.pid, data(r.page),
                                              fail, 0)
              IN [res  |-> u.res,
                  cur  |-> Current(cur.pid, r.page),
                  pool |-> u.pool,
                  pid  |-> IF u.res = "Ok" THEN cur.pid ELSE None,
                  rid  |-> IF u.res = "Ok" THEN r.ret ELSE None]
    ELSE LET r == insert_record(SlottedPage_default, record, checks) IN
         IF r.res # "Ok"
         THEN [res |-> IF r.res = "Panic" THEN "Panic" ELSE "Err",
               cur |-> cur, pool |-> pool, pid |-> None, rid |-> None]
         ELSE LET a == BufferPool_append_page(pool, data(r.page), fail, 0)
              IN IF a.res = "Err"
                 THEN [res |-> "Err", cur |-> cur, pool |-> a.pool,
                       pid |-> None, rid |-> None]
                 ELSE [res  |-> "Ok",
                       cur  |-> Current(a.ret, r.page),
                       pool |-> a.pool,
                       pid  |-> a.ret,
                       rid  |-> r.ret]

\* the records handed to append_record: two short ones that differ, the
\* longest that an empty page takes and the next, and the longest whose
\* length is a u16 and the next
AppendRecords ==
    {Record(1, f) : f \in Fills}
      \cup {Record(len, 1) : len \in {PAGESIZE - 8, PAGESIZE - 7,
                                       Word - 1, Word}}

\* --------------------------------------- a record manager over a pool
\* The repository constructs no RecordManager; its life is taken to begin
\* with an empty slotted page that has been appended through the pool as
\* page 0 of a new file.
InitRecord ==
    /\ \E size \in 1..MaxFrames :
         \E a \in {BufferPool_append_page(BufferPool_new(<<>>, size),
                                          data(SlottedPage_default),
                                          "none", 0)} :
           /\ page_table = a.pool.page_table
           /\ manager = a.pool.manager
           /\ frames = a.pool.frames
           /\ file = a.pool.storage
           /\ current_page = Current(a.ret, SlottedPage_default)
    /\ disk = <<>>
    /\ returned = <<>>
    /\ expect = [p \in PageIds |-> None]
    /\ flags = [faults |-> 0, appendFailed |-> FALSE, grew |-> FALSE,
                updated |-> FALSE]
    /\ touched = {}
    /\ order = <<>>
    /\ page = <<>>
    /\ records = <<>>
    /\ hpage = NoPage
    /\ table = NoTable
    /\ inserted = <<>>
    /\ call = NoCall
    /\ last = NoOp

\* a call of RecordManager::append_record; records keeps what the
\* successful calls returned.  Nothing is called after a panic.
AppendRecord ==
    \E record \in AppendRecords, checks \in BOOLEAN,
       fail \in WriteFaults :
      /\ last.res # "Panic"
      /\ fail # "none" => flags.faults < MaxFaults
      /\ ~has_room(current_page.pg, record)
           => Len(file) + PageUnits <= MaxPages * PageUnits
      /\ \E r \in {append_record(current_page, Pool, record, checks,
                                 fail)} :
           /\ SetPool(r.pool)
           /\ current_page' = r.cur
           /\ records' = IF r.res = "Ok"
                         THEN Append(records,
                                     [bytes |-> record, pid |-> r.pid,
                                      id |-> r.rid])
                         ELSE records
           /\ last' = [NoOp EXCEPT
                         !.op = "append_record", !.res = r.res,
                         !.arg = fail, !.ret = <<r.pid, r.rid>>,
                         !.rec = record,
                         !.pre = [cur |-> current_page, pool |-> Pool]]
      /\ flags' = Faulted(fail)
      /\ UNCHANGED <<disk, returned, expect, touched, order, page, hpage,
                     table, inserted, call>>

\* another user of the pool reads a page of the file
RecordPoolRead ==
    \E page_id \in 0..(NumPages(file) - 1) :
      /\ last.res # "Panic"
      /\ \E r \in {BufferPool_read_page(Pool, page_id, "none")} :
           /\ SetPool(r.pool)
           /\ last' = [NoOp EXCEPT !.op = "read_page", !.res = r.res,
                                   !.arg = page_id, !.rec = r.out]
      /\ UNCHANGED <<current_page, call, records, disk, returned, expect,
                     flags,
                     touched, order, page, hpage, table, inserted>>

NextRecord == AppendRecord \/ RecordPoolRead

SpecRecord == InitRecord /\ [][NextRecord]_vars

\* ------------------------------------- the pool, one statement at a time
\* The statements of the three pool operations, in program order.  A call
\* is at the statement named by call.pc; call.trace lists the statements
\* it has executed.
IoSteps      == {"io_read", "io_append", "io_write"}
InstallSteps == {"update", "sweep", "remove", "insert", "copy"}

\* the first statement of add_to_buffer_pool: the page-table lookup picks
\* the branch
install_entry(hit) == IF hit THEN "update" ELSE "sweep"

\* an update_page that writes the file before the copy into the frame
next_step_write_early(op, pc, hit, ok) ==
    CASE pc = "begin" ->
           IF op = "read_page"
           THEN (IF hit THEN "hit_update" ELSE "io_read")
           ELSE IF op = "append_page" THEN "io_append"
           ELSE install_entry(hit)
      [] pc = "hit_update" -> "copy_out"
      [] pc = "copy_out" -> "done"
      [] pc \in {"io_read", "io_append"} ->
           IF ok THEN install_entry(hit) ELSE "done"
      [] pc = "update" -> IF op = "update_page" THEN "io_write" ELSE "copy"
      [] pc = "sweep" -> "remove"
      [] pc = "remove" -> "insert"
      [] pc = "insert" -> IF op = "update_page" THEN "io_write" ELSE "copy"
      [] pc = "copy" ->
           IF op = "read_page" THEN "copy_again" ELSE "done"
      [] pc = "copy_again" -> "done"
      [] pc = "io_write" -> "copy"
      [] OTHER -> "done"

\* the statement after pc in operation op: read_page (lines 103-126),
\* append_page (129-136), update_page (139-142), with the body of
\* add_to_buffer_pool (144-166) in the place of its call.  hit tells
\* whether the page table holds the page, ok whether the file call
\* returned Ok (the ? operator returns otherwise).
next_step(op, pc, hit, ok) ==
    CASE pc = "begin" ->
           IF op = "read_page"
           THEN (IF hit THEN "hit_update" ELSE "io_read")
           ELSE IF op = "append_page" THEN "io_append"
           ELSE install_entry(hit)
      [] pc = "hit_update" -> "copy_out"
      [] pc = "copy_out" -> "done"
      [] pc \in {"io_read", "io_append"} ->
           IF ok THEN install_entry(hit) ELSE "done"
      [] pc = "update" -> "copy"
      [] pc = "sweep" -> "remove"
      [] pc = "remove" -> "insert"
      [] pc = "insert" -> "copy"
      [] pc = "copy" ->
           IF op = "read_page" THEN "copy_again"
           ELSE IF op = "append_page" THEN "done"
           ELSE "io_write"
      [] pc = "copy_again" -> "done"
      [] pc = "io_write" -> "done"
      [] OTHER -> "done"

\* the call after executing its statement, with the file's answer ok
Advance(c, ok, hit) ==
    [c EXCEPT !.pc = next_step(c.op, c.pc, hit, ok),
              !.trace = Append(@, c.pc)]

stepVars == <<disk, returned, touched, order, page, records, hpage, table,
              inserted, current_page>>

\* BufferPool::new over a newly created, empty file; no call under way.
\* expect[p] is the buffer last handed to an installation of page p while
\* p is resident, and empty otherwise.
InitSteps ==
    /\ \E size \in 1..MaxFrames :
         LET s == BufferPool_new(<<>>, size) IN
         /\ page_table = s.page_table
         /\ manager = s.manager
         /\ frames = s.frames
         /\ file = s.storage
    /\ expect = [p \in PageIds |-> <<>>]
    /\ last = NoOp
    /\ LayersUnused
    /\ flags = [faults |-> 0, appendFailed |-> FALSE, grew |-> FALSE,
                updated |-> FALSE]
    /\ disk = <<>> /\ returned = <<>> /\ touched = {} /\ order = <<>>
    /\ page = <<>> /\ records = <<>>

\* a caller enters read_page, append_page or update_page; the first
\* statement to execute follows from the page-table lookup
StepCall ==
    \E op \in {"read_page", "append_page", "update_page"},
       page_id \in PageIds, d \in Data, fail \in WriteFaults \cup {"read"} :
      /\ call.pc = "idle"
      /\ op = "append_page" =>
           /\ page_id = 0
           /\ Len(file) + PageUnits <= MaxPages * PageUnits
      /\ op = "read_page" => d = 1 /\ fail \in ReadFaults
      /\ op # "read_page" => fail \in WriteFaults
      /\ fail # "none" => flags.faults < MaxFaults
      /\ call' = [NoCall EXCEPT
                    !.op = op,
                    !.pc = next_step(op, "begin", page_id \in DOMAIN page_table,
                                     TRUE),
                    !.page_id = IF op = "append_page" THEN None ELSE page_id,
                    !.buf = IF op = "read_page" THEN <<>>
                            ELSE Buffer_with_value(d),
                    !.fail = fail]
      /\ flags' = Faulted(fail)
      /\ UNCHANGED <<manager, page_table, frames, file, last, expect,
                     stepVars>>

\* the call into the paged file: storage.read_page (line 120),
\* storage.append_page (133) or storage.write_page (141)
StepIo ==
    /\ call.pc \in IoSteps
    /\ \/ /\ call.pc = "io_read"
          /\ \E r \in {PagedFile_read_page(file, call.page_id, call.fail)} :
               /\ call' = [Advance(call, r.res = "Ok",
                                   call.page_id \in DOMAIN page_table)
                             EXCEPT !.buf = r.buf, !.res = r.res]
               /\ file' = file
       \/ /\ call.pc = "io_append"
          /\ \E w \in {PagedFile_append_page(file, call.buf, call.fail, 0)} :
               /\ call' = [Advance(call, w.res = "Ok",
                                   w.pageno \in DOMAIN page_table)
                             EXCEPT !.page_id = w.pageno, !.res = w.res]
               /\ file' = w.file
       \/ /\ call.pc = "io_write"
          /\ \E w \in {PagedFile_write_page(file, call.page_id, call.buf,
                                            call.fail, 0)} :
               /\ call' = [Advance(call, w.res = "Ok", TRUE)
                             EXCEPT !.res = w.res]
               /\ file' = w.file
    /\ UNCHANGED <<manager, page_table, frames, last, expect, flags,
                   stepVars>>

\* the call into the clock: manager.update (lines 109, 148) or
\* manager.sweep (152).  An installation over a resident page hands the
\* frame new bytes from here on.
StepClock ==
    /\ call.pc \in {"hit_update", "update", "sweep"}
    /\ IF call.pc = "sweep"
       THEN \E s \in {ClockManager_sweep(manager, call.page_id)} :
              /\ manager' = s.manager
              /\ call' = [Advance(call, TRUE, FALSE) EXCEPT
                            !.frame_idx = s.idx, !.evicted = s.evicted]
              /\ expect' = expect
       ELSE /\ manager' = ClockManager_update(manager,
                                              page_table[call.page_id])
            /\ call' = [Advance(call, TRUE, TRUE) EXCEPT
                          !.frame_idx = page_table[call.page_id]]
            /\ expect' = IF call.pc = "update"
                         THEN [expect EXCEPT ![call.page_id] = call.buf]
                         ELSE expect
    /\ UNCHANGED <<page_table, frames, file, last, flags, stepVars>>

\* the page-table statements of an installation: the removal of the
\* evicted page, if any (lines 155-157), and the insertion (158)
StepPageTable ==
    /\ call.pc \in {"remove", "insert"}
    /\ IF call.pc = "remove"
       THEN /\ page_table' = [k \in DOMAIN page_table \ {call.evicted} |->
                                page_table[k]]
            /\ expect' = IF call.evicted \in DOMAIN expect
                         THEN [expect EXCEPT ![call.evicted] = <<>>]
                         ELSE expect
       ELSE /\ page_table' = [k \in DOMAIN page_table \cup {call.page_id} |->
                                IF k = call.page_id THEN call.frame_idx
                                ELSE page_table[k]]
            /\ expect' = [expect EXCEPT ![call.page_id] = call.buf]
    /\ call' = Advance(call, TRUE, TRUE)
    /\ UNCHANGED <<manager, frames, file, last, flags, stepVars>>

\* the copies: into the frame (lines 164, 124) and, on a hit of
\* read_page, out of the frame into the caller's buffer (116)
StepCopy ==
    /\ call.pc \in {"copy", "copy_again", "copy_out"}
    /\ IF call.pc = "copy_out"
       THEN /\ frames' = frames
            /\ call' = [Advance(call, TRUE, TRUE) EXCEPT
                          !.buf = frames[call.frame_idx]]
       ELSE /\ frames' = [frames EXCEPT ![call.frame_idx] = call.buf]
            /\ call' = Advance(call, TRUE, TRUE)
    /\ UNCHANGED <<manager, page_table, file, last, expect, flags, stepVars>>

\* the operation returns to its caller
StepReturn ==
    /\ call.pc = "done"
    /\ last' = [NoOp EXCEPT !.op = call.op, !.res = call.res,
                            !.calls = call.trace]
    /\ call' = NoCall
    /\ UNCHANGED <<manager, page_table, frames, file, expect, flags,
                   stepVars>>

NextSteps ==
    StepCall \/ StepIo \/ StepClock \/ StepPageTable \/ StepCopy \/ StepReturn

SpecSteps == InitSteps /\ [][NextSteps]_vars

\* --------------------------------- the pool with its frames as declared
\* BufferPool::frames is Vec<[u8; 4096]> while aligned::Buffer holds
\* PAGESIZE = 16384 bytes.  In storage units a page buffer has PageUnits
\* units and a frame FrameUnits; the model keeps the frame shorter than the
\* page, as declared.
FrameUnits == 1

\* <[u8]>::copy_from_slice of the standard library: the lengths must be
\* equal, or the call panics
slice_copy_from_slice(dst, src) ==
    IF Len(dst) = Len(src) THEN [res |-> "Ok", val |-> src]
    ELSE [res |-> "Panic", val |-> dst]

\* aligned::Buffer::copy_from_slice: zip stops at the shorter of the two
Buffer_copy_from_slice(buf, slice) ==
    [i \in 1..Len(buf) |-> IF i <= Len(slice) THEN slice[i] ELSE buf[i]]

\* BufferPool::add_to_buffer_pool with the copy of line 164 on the declared
\* lengths
add_to_buffer_pool_sized(pt, m, fr, page_id, slice) ==
    LET hit == page_id \in DOMAIN pt
        s   == ClockManager_sweep(m, page_id)
        idx == IF hit THEN pt[page_id] ELSE s.idx
        rem == IF s.evicted # None THEN DOMAIN pt \ {s.evicted}
               ELSE DOMAIN pt
        c   == slice_copy_from_slice(fr[idx], slice)
    IN
    [page_table |-> IF hit THEN pt
                    ELSE [k \in rem \cup {page_id} |->
                            IF k = page_id THEN s.idx ELSE pt[k]],
     manager    |-> IF hit THEN ClockManager_update(m, idx) ELSE s.manager,
     frames     |-> [fr EXCEPT ![idx] = c.val],
     frame_idx  |-> idx,
     res        |-> c.res]

\* the paged files a pool may be opened over: up to MaxPages whole pages
ExistingFiles ==
    {<<>>} \cup
    UNION {{Buffer_with_value(d)} : d \in Data} \cup
    {Buffer_with_value(d) \o Buffer_with_value(e) : d \in Data, e \in Data}

\* BufferPool::new(storage, size) over an existing file: size frames of
\* the declared length, all zero
InitFrame ==
    /\ \E size \in 1..MaxFrames, f \in ExistingFiles :
         /\ page_table = [k \in {} |-> 0]
         /\ manager = ClockManager_new(size)
         /\ frames = [i \in 0..(size - 1) |-> [j \in 1..FrameUnits |-> 0]]
         /\ file = f
    /\ last = NoOp
    /\ LayersUnused
    /\ flags = [faults |-> 0, appendFailed |-> FALSE, grew |-> FALSE,
                updated |-> FALSE]
    /\ expect = [p \in PageIds |-> None]
    /\ disk = <<>> /\ returned = <<>> /\ touched = {} /\ order = <<>>
    /\ page = <<>> /\ records = <<>>

\* what an operation leaves in the pool and in last: arg is the frame,
\* rec the buffer handed in or out.  Nothing is called after a panic.
SetFrame(a, f, op, res, buf) ==
    /\ page_table' = a.page_table
    /\ manager' = a.manager
    /\ frames' = a.frames
    /\ file' = f
    /\ last' = [NoOp EXCEPT !.op = op, !.res = res, !.arg = a.frame_idx,
                            !.rec = buf]
    /\ UNCHANGED <<layerVars, disk, returned, expect, flags, touched, order,
                   page, records>>

\* BufferPool::read_page into a caller's buffer filled with fill
FrameRead ==
    \E page_id \in PageIds, fill \in Data :
      /\ last.res # "Panic"
      /\ IF page_id \in DOMAIN page_table
         THEN LET idx == page_table[page_id] IN
              SetFrame([page_table |-> page_table,
                        manager |-> ClockManager_update(manager, idx),
                        frames |-> frames, frame_idx |-> idx],
                       file, "read_page", "Ok",
                       Buffer_copy_from_slice(Buffer_with_value(fill),
                                              frames[idx]))
         ELSE \E r \in {PagedFile_read_page(file, page_id, "none")} :
                IF r.res = "Err"
                THEN SetFrame([page_table |-> page_table,
                               manager |-> manager, frames |-> frames,
                               frame_idx |-> None],
                              file, "read_page", "Err", <<>>)
                ELSE \E a \in {add_to_buffer_pool_sized(page_table, manager,
                                                       frames, page_id,
                                                       r.buf)} :
                       \E c \in {slice_copy_from_slice(
                                   a.frames[a.frame_idx], r.buf)} :
                         SetFrame([a EXCEPT !.frames[a.frame_idx] =
                                      IF a.res = "Ok" THEN c.val ELSE @],
                                  file, "read_page", a.res, r.buf)

\* BufferPool::append_page
FrameAppend ==
    \E d \in Data :
      /\ last.res # "Panic"
      /\ Len(file) + PageUnits <= MaxPages * PageUnits
      /\ \E w \in {PagedFile_append_page(file, Buffer_with_value(d),
                                         "none", 0)} :
           \E a \in {add_to_buffer_pool_sized(page_table, manager, frames,
                                              w.pageno,
                                              Buffer_with_value(d))} :
             SetFrame(a, w.file, "append_page", a.res, Buffer_with_value(d))

\* BufferPool::update_page: the panic of the installation leaves the file
\* unwritten
FrameUpdate ==
    \E page_id \in PageIds, d \in Data :
      /\ last.res # "Panic"
      /\ \E a \in {add_to_buffer_pool_sized(page_table, manager, frames,
                                            page_id, Buffer_with_value(d))} :
           \E w \in {PagedFile_write_page(file, page_id,
                                          Buffer_with_value(d), "none", 0)} :
             SetFrame(a, IF a.res = "Ok" THEN w.file ELSE file,
                      "update_page", a.res, Buffer_with_value(d))

NextFrame == FrameRead \/ FrameAppend \/ FrameUpdate

SpecFrame == InitFrame /\ [][NextFrame]_vars

\* ------------------------------------------- the BufferPool of buffer.rs
\* buffer.rs holds an earlier pool: catalog (kept in page_table), manager,
\* cache (kept in frames) and page_file (kept in file).  Its clock is the
\* ClockManager above, line for line; its test opens the file with pages
\* of 4096 bytes, the length of a cache entry.
\* buffer.rs BufferPool::read_page: the pool afterwards, the result and
\* the caller's buffer
buffer_read_page(s, page_id, fail) ==
    IF page_id \in DOMAIN s.page_table
    THEN LET cache_idx == s.page_table[page_id] IN
         [pool |-> [s EXCEPT !.manager = ClockManager_update(@, cache_idx)],
          res  |-> "Ok",
          out  |-> s.frames[cache_idx]]
    ELSE LET r == PagedFile_read_page(s.storage, page_id, fail) IN
         IF r.res = "Err" THEN [pool |-> s, res |-> "Err", out |-> <<>>]
         ELSE LET w   == ClockManager_sweep(s.manager, page_id)
                  rem == IF w.evicted # None
                         THEN DOMAIN s.page_table \ {w.evicted}
                         ELSE DOMAIN s.page_table
              IN [pool |-> [page_table |->
                              [k \in rem \cup {page_id} |->
                                 IF k = page_id THEN w.idx
                                 ELSE s.page_table[k]],
                            manager    |-> w.manager,
                            frames     |-> [s.frames EXCEPT ![w.idx] = r.buf],
                            storage    |-> s.storage],
                  res  |-> "Ok",
                  out  |-> r.buf]

\* buffer.rs BufferPool::new over a newly created, empty file.  expect[p]
\* is the payload of the last append or update of page p that returned Ok.
InitCache == Init

\* a call of read_page; last keeps the page and the buffer handed back
CacheRead ==
    \E page_id \in PageIds, fail \in ReadFaults :
      /\ fail # "none" => /\ flags.faults < MaxFaults
                          /\ page_id \notin DOMAIN page_table
      /\ \E r \in {buffer_read_page(Pool, page_id, fail)} :
           /\ SetPool(r.pool)
           /\ last' = [NoOp EXCEPT !.op = "read_page", !.res = r.res,
                                   !.arg = page_id, !.rec = r.out]
      /\ flags' = Faulted(fail)
      /\ UNCHANGED <<layerVars, disk, returned, expect, touched, order,
                     page, records>>

\* a call of append_page: page_file.append_page and nothing else
CacheAppend ==
    \E d \in Data, fail \in WriteFaults :
      /\ Len(file) + PageUnits <= MaxPages * PageUnits
      /\ fail # "none" => flags.faults < MaxFaults
      /\ \E w \in {PagedFile_append_page(file, Buffer_with_value(d),
                                         fail, 0)} :
           /\ file' = w.file
           /\ last' = [NoOp EXCEPT !.op = "append_page", !.res = w.res,
                                   !.ret = w.pageno]
           /\ returned' = IF w.res = "Ok" THEN Append(returned, w.pageno)
                          ELSE returned
           /\ expect' = IF w.res = "Ok"
                        THEN [expect EXCEPT ![w.pageno] = d]
                        ELSE [expect EXCEPT ![Len(file) \div PageUnits] =
                                IF fail = "sync" THEN None ELSE @]
      /\ flags' = Faulted(fail)
      /\ UNCHANGED <<layerVars, page_table, manager, frames, disk, touched,
                     order, page, records>>

\* a call of update_page: page_file.write_page and nothing else
CacheUpdate ==
    \E page_id \in PageIds, d \in Data, fail \in WriteFaults :
      /\ fail # "none" => flags.faults < MaxFaults
      /\ \E w \in {PagedFile_write_page(file, page_id, Buffer_with_value(d),
                                        fail, 0)} :
           /\ file' = w.file
           /\ last' = [NoOp EXCEPT !.op = "update_page", !.res = w.res,
                                   !.arg = page_id]
           /\ expect' = [expect EXCEPT ![page_id] =
                           IF w.res = "Ok" THEN d
                           ELSE IF fail = "sync" THEN None ELSE @]
      /\ flags' = Faulted(fail)
      /\ UNCHANGED <<layerVars, page_table, manager, frames, disk, returned,
                     touched, order, page, records>>

NextCache == CacheRead \/ CacheAppend \/ CacheUpdate

SpecCache == InitCache /\ [][NextCache]_vars

\* ====================================================================
\* Properties of the buffer pool (specification Spec)
\* ====================================================================
Resident == DOMAIN page_table
Size     == Cardinality(DOMAIN frames)

\* what read_page(p) hands back in the current state when the file
\* answers without an I/O error
ReadBack(pool, p) == BufferPool_read_page(pool, p, "none")

\* some page of the file is not in a frame while the pool is full
Evicted ==
    /\ Cardinality(Resident) = Size
    /\ \E q \in PageIds : PageExists(file, q) /\ q \notin Resident

\* C1: after every pool operation, successful or not, slot i of the clock
\* holds key k exactly when the page table maps k to frame i.
ClockResidency ==
    /\ \A i \in DOMAIN manager.entries : \A k \in PageIds \cup Resident :
         manager.entries[i] = k <=> (k \in Resident /\ page_table[k] = i)
    /\ \A i \in DOMAIN manager.entries :
         manager.entries[i] \in PageIds \cup {None}

\* C1 witness: a failed update_page after an eviction
ClockResidencyWitness ==
    /\ last.op = "update_page" /\ last.res = "Err"
    /\ Evicted

MissingPageReadFails ==
    \A p \in 0..MaxPages :
      (p \notin Resident /\ ~PageExists(file, p)) =>
        /\ ReadBack(Pool, p).res = "Err"
        /\ ReadBack(Pool, p).pool = Pool

\* C5 witness: read_page failed, with no I/O failure injected, on a pool
\* that holds pages
MissingPageReadFailsWitness ==
    /\ last.op = "read_page" /\ last.res = "Err"
    /\ flags.faults = 0
    /\ Resident # {}

\* C6 as claimed: an update_page whose write fails leaves the page table,
\* the clock and the frames as they were.
FailedUpdateLeavesPool ==
    [][(last'.op = "update_page" /\ last'.res = "Err")
         => UNCHANGED <<page_table, manager, frames>>]_vars

\* C7: an append_page whose paged-file append fails (at the seek, in the
\* write or at the sync) returns the error and leaves the page table, the
\* clock and the frames as they were.
FailedAppendLeavesPool ==
    \A d \in Data, fail \in {"seek", "write", "sync"} :
      \A n \in 0..(PageUnits - 1) :
        LET r == BufferPool_append_page(Pool, Buffer_with_value(d), fail, n)
        IN /\ r.res = "Err"
           /\ r.pool.page_table = page_table
           /\ r.pool.manager = manager
           /\ r.pool.frames = frames

\* C7 witness: append_page failed on a full pool
FailedAppendLeavesPoolWitness ==
    /\ last.op = "append_page" /\ last.res = "Err"
    /\ Cardinality(Resident) = Size


\* ====================================================================
\* Properties of the clock manager (specification SpecClock)
\* ====================================================================
ClockSize == Cardinality(DOMAIN manager.clock)

\* place of slot j in the scan that starts at hand h: h first, then h+1, ...
ScanPlace(h, j) == (j - h + ClockSize) % ClockSize

AllSet(c) == \A j \in DOMAIN c : c[j]

\* the slot a sweep over reference bits c with hand h has to select
Selected(c, h) ==
    IF AllSet(c) THEN h
    ELSE CHOOSE j \in DOMAIN c :
           /\ ~c[j]
           /\ \A k \in DOMAIN c : ~c[k] => ScanPlace(h, j) <= ScanPlace(h, k)

\* the slots the scan passes before it selects
Passed(c, h, j) ==
    IF AllSet(c) THEN j # h
    ELSE ScanPlace(h, j) < ScanPlace(h, Selected(c, h))

\* C8: sweep(key) selects the first slot with reference bit 0 in the order
\* h, h+1, ... (wrapping), or h when every bit is 1; the bits of the slots
\* passed before it are cleared; key is stored in the selected slot, whose
\* bit is set and which becomes the hand; the selected index and the
\* previous resident are returned; slots not passed keep bit and key.
SweepSelectsFirstClear ==
    last.op = "sweep" =>
      LET c   == last.pre.clock
          h   == last.pre.idx
          sel == Selected(c, h)
      IN /\ last.ret = sel
         /\ last.evicted = last.pre.entries[sel]
         /\ manager.idx = sel
         /\ manager.clock[sel]
         /\ manager.entries[sel] = last.arg
         /\ \A j \in DOMAIN c \ {sel} :
              /\ manager.entries[j] = last.pre.entries[j]
              /\ manager.clock[j] = IF Passed(c, h, j) THEN FALSE ELSE c[j]

\* C8 witness: the scan cleared the bits from the hand to the end of the
\* ring, wrapped around and selected a slot before the hand
SweepSelectsFirstClearWitness ==
    /\ last.op = "sweep"
    /\ ~AllSet(last.pre.clock)
    /\ last.ret < last.pre.idx
    /\ last.evicted # None

\* C9: on a new clock on which update is never called, the first N sweeps
\* return 0, 1, ..., N-1 and evict nothing; each later sweep selects the
\* slot after the previously selected one and evicts the key installed
\* longest ago.
SweepWithoutUpdateIsFifo ==
    (last.op = "sweep" /\ ~flags.updated) =>
      IF Len(last.queue) < ClockSize
      THEN /\ last.ret = Len(last.queue)
           /\ last.evicted = None
      ELSE /\ last.ret = (last.pre.idx + 1) % ClockSize
           /\ last.evicted = Head(last.queue)

\* C9 witness: a full clock that was never updated wraps around and evicts
\* the oldest key, which differs from the newest one
SweepWithoutUpdateIsFifoWitness ==
    /\ last.op = "sweep" /\ ~flags.updated
    /\ ClockSize >= 2
    /\ Len(last.queue) = ClockSize
    /\ last.pre.idx = ClockSize - 1 /\ last.ret = 0
    /\ last.evicted # last.queue[ClockSize]

\* C10: when update(i) was called since the previous sweep and some
\* reference bit is 0 at the start of a sweep, the sweep does not select i
\* and the key in slot i stays; the bit of slot i is cleared only when the
\* scan passed it.
SecondChance ==
    (last.op = "sweep" /\ ~AllSet(last.pre.clock)) =>
      \A i \in last.spared :
        /\ last.ret # i
        /\ manager.entries[i] = last.pre.entries[i]
        /\ ~manager.clock[i] =>
             ScanPlace(last.pre.idx, i) < ScanPlace(last.pre.idx, last.ret)

\* C10 witness: a sweep that passed an updated slot, cleared its bit and
\* evicted the key of another slot
SecondChanceWitness ==
    /\ last.op = "sweep" /\ ~AllSet(last.pre.clock)
    /\ last.evicted # None
    /\ \E i \in last.spared :
         /\ ~manager.clock[i]
         /\ last.pre.entries[i] # None


\* C11: for every clock size, every setting of the reference bits and every
\* hand, sweep ends after examining at most 2N slots and returns an index
\* in [0, N).
SweepTerminates ==
    /\ \A c \in [DOMAIN manager.clock -> BOOLEAN], h \in DOMAIN manager.clock :
         LET l == sweep_loop(c, h, 0)
             s == ClockManager_sweep([manager EXCEPT !.clock = c, !.idx = h], 0)
         IN /\ l.examined <= 2 * ClockSize
            /\ l.found \in (0..(ClockSize - 1)) \cup {None}
            /\ s.idx \in 0..(ClockSize - 1)
            /\ s.manager.idx = s.idx
    /\ last.op = "sweep" => last.ret \in 0..(ClockSize - 1)

\* C11 witness: a sweep that found every reference bit set, examined the
\* whole ring from a hand in its middle and fell back on the hand
SweepTerminatesWitness ==
    /\ last.op = "sweep"
    /\ ClockSize >= 2
    /\ AllSet(last.pre.clock)
    /\ last.pre.idx > 0
    /\ sweep_loop(last.pre.clock, last.pre.idx, 0).examined = ClockSize
    /\ last.ret = last.pre.idx


\* ====================================================================
\* Properties of the paged file (specification SpecFile)
\* ====================================================================
\* what read_page(p) returns from file f when no call fails
FilePage(f, p) == PagedFile_read_page(f, p, "none")

\* C12: after successful appends and writes only, a page returned by
\* append_page or written by write_page reads back as the payload last
\* given for it; a write_page to an existing page changes that page alone.
PagedFileRoundTrip ==
    flags.faults = 0 =>
      /\ \A p \in PageIds :
           expect[p] # None =>
             /\ FilePage(file, p).res = "Ok"
             /\ FilePage(file, p).buf = Buffer_with_value(expect[p])
      /\ \A d \in Data :
           LET a == PagedFile_append_page(file, Buffer_with_value(d),
                                          "none", 0)
           IN /\ a.res = "Ok"
              /\ FilePage(a.file, a.pageno).res = "Ok"
              /\ FilePage(a.file, a.pageno).buf = Buffer_with_value(d)
              /\ \A q \in 0..(NumPages(file) - 1) :
                   FilePage(a.file, q) = FilePage(file, q)
      /\ \A p \in 0..(NumPages(file) - 1), d \in Data :
           LET w == PagedFile_write_page(file, p, Buffer_with_value(d),
                                         "none", 0)
           IN /\ w.res = "Ok"
              /\ FilePage(w.file, p).buf = Buffer_with_value(d)
              /\ Len(w.file) = Len(file)
              /\ \A q \in 0..(NumPages(file) - 1) \ {p} :
                   FilePage(w.file, q) = FilePage(file, q)

\* C12 witness: a successful write_page changed an appended page that is
\* followed by another appended page holding a different payload
PagedFileRoundTripWitness ==
    /\ flags.faults = 0 /\ ~flags.grew
    /\ last.op = "write_page" /\ last.res = "Ok"
    /\ Len(returned) >= 2
    /\ last.arg = returned[1]
    /\ FilePage(last.pre, last.arg).buf # FilePage(file, last.arg).buf
    /\ expect[returned[2]] # None
    /\ expect[returned[2]] # expect[last.arg]


\* C13 as claimed: after every successful read_page, write_page or
\* append_page on a file that started empty, the file length is a multiple
\* of the page size.
FileLengthAligned ==
    (last.op \in {"read_page", "write_page", "append_page"} /\ last.res = "Ok")
      => Len(file) % PageUnits = 0

\* C14 as claimed: append_page on a file whose length is not a multiple of
\* the page size returns an error and writes nothing.
AppendRejectsUnalignedFile ==
    Len(file) % PageUnits # 0 =>
      \A d \in Data :
        LET a == PagedFile_append_page(file, Buffer_with_value(d), "none", 0)
        IN /\ a.res = "Err"
           /\ a.file = file


\* call a comes before call b in the sequence of file calls
CalledBefore(calls, a, b) ==
    \E i, j \in 1..Len(calls) : i < j /\ calls[i] = a /\ calls[j] = b

\* what a write or an append has to have done when it returns r
SyncedWhenOk(r, fail) ==
    /\ fail \in {"seek", "write", "sync"} => r.res = "Err"
    /\ r.res = "Ok" =>
         /\ r.synced
         /\ CalledBefore(r.calls, "write_all", "sync_data")
         /\ r.calls[Len(r.calls)] = "sync_data"

\* C15: write_page and append_page call sync_data after the page write and
\* before returning Ok, and return an error when the write or the sync
\* failed; after Ok the bytes of the page are among the synced ones.
SyncBeforeOk ==
    /\ \A d \in Data, fail \in FileWriteFaults : \A n \in 0..(PageUnits - 1) :
         /\ SyncedWhenOk(PagedFile_append_page(file, Buffer_with_value(d),
                                               fail, n), fail)
         /\ \A p \in PageIds :
              SyncedWhenOk(PagedFile_write_page(file, p, Buffer_with_value(d),
                                                fail, n), fail)
    /\ (last.op \in {"write_page", "append_page"} /\ last.res = "Ok") =>
         LET off == IF last.op = "write_page" THEN last.arg * PageUnits
                    ELSE Len(last.pre)
         IN /\ CalledBefore(last.calls, "write_all", "sync_data")
            /\ disk = file
            /\ Len(disk) >= off + PageUnits
            /\ SubSeq(disk, off + 1, off + PageUnits) =
                 SubSeq(file, off + 1, off + PageUnits)
            /\ \E d \in Data :
                 SubSeq(disk, off + 1, off + PageUnits) = Buffer_with_value(d)

\* C15 witness: a write_page returned Ok after an earlier call had failed
\* and left unsynced bytes behind; the rewritten page is on the disk
SyncBeforeOkWitness ==
    /\ last.op = "write_page" /\ last.res = "Ok"
    /\ flags.faults > 0
    /\ last.pre # file
    /\ last.pre # disk
    /\ Len(disk) >= 2 * PageUnits


\* ====================================================================
\* Properties of the slotted page (specification SpecPage)
\* ====================================================================
\* the page is in use: no insert_record has panicked on it
PageLive == last.res # "Panic"

RecordIds == 0..(record_count(page) - 1)

\* sum of size + 4 over the first n slots of the directory
RECURSIVE SlotBytes(_, _)
SlotBytes(pg, n) ==
    IF n = 0 THEN 0
    ELSE SlotBytes(pg, n - 1) + record_header(pg, n - 1).size + 4

\* C16: on a page made by default() and after any inserts, accepted or
\* rejected, free_space() + sum of (size + 4) over the stored records + 4
\* is PAGESIZE; the empty page has PAGESIZE - 4 bytes free.
SlottedPageAccounting ==
    PageLive =>
      /\ record_count(page) = Len(records)
      /\ \A i \in RecordIds :
           record_header(page, i).size = Len(records[i + 1].bytes)
      /\ free_space(page) + SlotBytes(page, record_count(page)) + 4 = PAGESIZE
      /\ records = <<>> => free_space(page) = PAGESIZE - 4
      /\ free_space(SlottedPage_default) = PAGESIZE - 4

\* C16 witness: an insert was rejected on a page that holds an empty and a
\* non-empty record
SlottedPageAccountingWitness ==
    /\ last.op = "insert_record" /\ last.res = "Err"
    /\ Len(last.rec) < Word
    /\ \E i, j \in RecordIds :
         /\ record_header(page, i).size = 0
         /\ record_header(page, j).size > 0


\* the bytes [offset, offset + size) of record i
RecordRange(pg, i) ==
    LET h == record_header(pg, i) IN h.offset..(h.offset + h.size - 1)

\* C17: the byte ranges of any two records are disjoint, each range ends at
\* the end_of_free_space found when its record was inserted, and all ranges
\* lie in [end_of_free_space, PAGESIZE).
SlottedPageNoOverlap ==
    PageLive =>
      /\ \A i, j \in RecordIds :
           i # j => RecordRange(page, i) \cap RecordRange(page, j) = {}
      /\ \A i \in RecordIds :
           LET h == record_header(page, i) IN
           /\ h.offset + h.size = records[i + 1].eofs
           /\ h.offset >= end_of_free_space(page)
           /\ h.offset + h.size <= PAGESIZE

\* C17 witness: the last insert placed a non-empty record right below an
\* earlier non-empty one
SlottedPageNoOverlapWitness ==
    /\ last.op = "insert_record" /\ last.res = "Ok"
    /\ \E i, j \in RecordIds :
         /\ i < j /\ j = last.ret
         /\ record_header(page, i).size > 0
         /\ record_header(page, j).size > 0
         /\ record_header(page, j).offset + record_header(page, j).size
              = record_header(page, i).offset


\* C18: end_of_free_space >= header_size = 4 + 4 * record_count, so
\* available_bytes does not underflow; the slots of the directory fill
\* [4, 4 + 4 * record_count) without gaps; no record payload reaches into
\* the header or the directory.
SlottedPageHeaderBelowData ==
    PageLive =>
      LET n == record_count(page) IN
      /\ header_size(page) = 4 + 4 * n
      /\ end_of_free_space(page) >= header_size(page)
      /\ end_of_free_space(page) <= PAGESIZE
      /\ available_bytes(page) = end_of_free_space(page) - header_size(page)
      /\ \A i \in RecordIds :
           /\ record_header(page, i).some
           /\ record_header_offset(i) = 4 + 4 * i
           /\ record_header_offset(i) + 4 <= header_size(page)
           /\ record_header(page, i).offset >= header_size(page)
      /\ ~record_header(page, n).some

\* C18 witness: the directory has grown up to the records, leaving no free
\* byte
SlottedPageHeaderBelowDataWitness ==
    /\ last.op = "insert_record" /\ last.res = "Ok"
    /\ record_count(page) >= 2
    /\ end_of_free_space(page) = header_size(page)
    /\ \E i \in RecordIds : record_header(page, i).size > 0


\* what C19 asks of insert_record for a record of len bytes on page pg
InsertAsSpecified(pg, len, fill, checks) ==
    LET r == insert_record(pg, Record(len, fill), checks) IN
    IF len + 4 <= free_space(pg)
    THEN /\ r.res = "Ok"
         /\ end_of_free_space(r.page) = end_of_free_space(pg) - len
         /\ record_count(r.page) = record_count(pg) + 1
         /\ len = free_space(pg) - 4 => free_space(r.page) = 0
    ELSE /\ r.res = "Err"
         /\ r.page = pg

\* C19 as claimed: insert_record accepts a record exactly when its length
\* plus 4 is at most free_space(), and otherwise fails with an error and
\* leaves the page alone; an accepted record lowers end_of_free_space by its
\* length and raises record_count by 1.
InsertAcceptsExactlyWhatFits ==
    PageLive =>
      \A len \in RecordLens, fill \in Fills, checks \in BOOLEAN :
        InsertAsSpecified(page, len, fill, checks)


\* C20: the i-th accepted insert_record returned id i-1, the record_count
\* before it; in every later state get_record(id) returns the bytes given
\* to that insert, and get_record of an id >= record_count returns None.
RecordIdsStable ==
    PageLive =>
      /\ \A k \in 1..Len(records) :
           /\ records[k].id = k - 1
           /\ record_header(page, k - 1).some
           /\ record_header(page, k - 1).size = Len(records[k].bytes)
           /\ record_header(page, k - 1).offset + Len(records[k].bytes)
                <= PAGESIZE
           /\ get_record(page, k - 1).some
           /\ get_record(page, k - 1).bytes = records[k].bytes
      /\ \A id \in record_count(page)..(record_count(page) + 2) :
           ~get_record(page, id).some
      /\ \A len \in 0..MaxRecord, fill \in Fills :
           LET r == insert_record(page, Record(len, fill), TRUE) IN
           r.res = "Ok" =>
             /\ r.ret = record_count(page)
             /\ get_record(r.page, r.ret).bytes = Record(len, fill)
      /\ (last.op = "get_record" /\ last.arg < Len(records)) =>
           /\ last.res = "Some"
           /\ last.rec = records[last.arg + 1].bytes
      /\ (last.op = "get_record" /\ last.arg >= Len(records)) =>
           last.res = "None"

\* C20 witness: get_record(0) returned the first record after an empty
\* record had been inserted behind it
RecordIdsStableWitness ==
    /\ last.op = "get_record" /\ last.res = "Some" /\ last.arg = 0
    /\ Len(records) >= 2
    /\ Len(records[1].bytes) >= 2
    /\ last.rec = records[1].bytes
    /\ \E k \in 2..Len(records) : records[k].bytes = <<>>

\* C28: an insert_record that returns an error, for want of room or
\* because the length of the record is no u16, leaves every byte of the
\* page as it was: end_of_free_space, record_count, the slot directory
\* and the stored records, which read back as before.
FailedInsertKeepsPage ==
    /\ (last.op = "insert_record" /\ last.res = "Err") =>
         /\ page = last.pre
         /\ end_of_free_space(page) = end_of_free_space(last.pre)
         /\ record_count(page) = Len(records)
         /\ \A k \in 1..Len(records) :
              get_record(page, records[k].id).bytes = records[k].bytes
    /\ \A len \in RecordLens : \A checks \in BOOLEAN :
         LET r == insert_record(page, Record(len, 1), checks) IN
         r.res = "Err" => r.page = page

\* C28 witness: a page with two records and some bytes free has refused a
\* record for want of room, and refuses one whose length is no u16
FailedInsertKeepsPageWitness ==
    /\ last.op = "insert_record" /\ last.res = "Err"
    /\ Len(last.rec) > 0 /\ Len(last.rec) < Word - 4
    /\ record_count(page) = 2
    /\ free_space(page) > 0
    /\ insert_record(page, Record(Word, 1), FALSE).res = "Err"

\* C35 as claimed: on every page that default() and inserts produce, and
\* for a record of any length, insert_record returns a record id or an
\* error and none of its u16 computations wraps: a build that panics on
\* overflow and one that wraps give the same answer, and no call panics.
InsertWithoutOverflow ==
    /\ last.op = "insert_record" => last.res \in {"Ok", "Err"}
    /\ PageLive =>
         \A len \in RecordLens :
           LET strict == insert_record(page, Record(len, 1), TRUE)
               wrap   == insert_record(page, Record(len, 1), FALSE)
           IN /\ strict.res \in {"Ok", "Err"}
              /\ wrap = strict

\* ====================================================================
\* Further properties of the clock (specification SpecClock)
\* ====================================================================
\* a sweep has installed a key: the slot under the hand is that of the
\* most recent sweep
Swept(m) == m.entries[m.idx] # None

\* every slot but the one under the hand has its reference bit set
OthersReferenced(m) ==
    \A j \in DOMAIN m.clock : j # m.idx => m.clock[j]

\* C37 as claimed: in a clock of two or more slots the next sweep does not
\* take the slot of the most recent sweep, and so does not evict the key
\* installed there, whatever updates came in between.
SweepSparesLastInstalled ==
    /\ (Cardinality(DOMAIN manager.clock) >= 2 /\ Swept(manager)) =>
         \A key \in Keys :
           ClockManager_sweep(manager, key).idx # manager.idx
    /\ (last.op = "sweep" /\ Cardinality(DOMAIN manager.clock) >= 2
          /\ Swept(last.pre)) => last.ret # last.pre.idx

\* C37 amended: the next sweep takes the slot of the most recent sweep,
\* evicting the key installed there, exactly when every other slot has
\* its reference bit set at that moment (by updates since, or from
\* before); if some other slot has a clear bit the key survives the sweep.
SweepTakesLastInstalledWhenOthersSet ==
    /\ Swept(manager) =>
         \A key \in Keys :
           LET s == ClockManager_sweep(manager, key) IN
           /\ s.idx = manager.idx <=> OthersReferenced(manager)
           /\ s.idx = manager.idx =>
                s.evicted = manager.entries[manager.idx]
           /\ s.idx # manager.idx =>
                s.manager.entries[manager.idx]
                  = manager.entries[manager.idx]
    /\ (last.op = "sweep" /\ Swept(last.pre)) =>
         /\ last.ret = last.pre.idx <=> OthersReferenced(last.pre)
         /\ last.ret = last.pre.idx =>
              last.evicted = last.pre.entries[last.pre.idx]

\* C37 witness: in a clock of three slots, updates of the two other slots
\* since the previous sweep made the sweep evict what that sweep installed
SweepTakesLastInstalledWitness ==
    /\ last.op = "sweep"
    /\ Cardinality(DOMAIN manager.clock) = 3
    /\ Swept(last.pre)
    /\ last.ret = last.pre.idx
    /\ last.evicted = last.pre.entries[last.pre.idx]
    /\ Cardinality(last.spared) = 2
    /\ last.pre.idx \notin last.spared

\* ====================================================================
\* Further properties of the buffer pool (specification Spec)
\* ====================================================================
\* C27: each frame is free or bound to exactly one page id, no page id is
\* resident in two frames, and the page table holds at most as many
\* entries as the pool has frames.
FramesBoundOnce ==
    /\ DOMAIN manager.entries = DOMAIN frames
    /\ \A i \in DOMAIN frames :
         LET bound == {k \in Resident : page_table[k] = i} IN
         IF manager.entries[i] = None THEN bound = {}
         ELSE bound = {manager.entries[i]}
    /\ \A i, j \in DOMAIN frames :
         (i # j /\ manager.entries[i] # None)
           => manager.entries[i] # manager.entries[j]
    /\ \A k \in Resident : page_table[k] \in DOMAIN frames
    /\ Cardinality(Resident) <= Size

\* C27 witness: both appended pages have been bound to the only frame, and
\* a read_page has bound it to the first again, evicting the second
FramesBoundOnceWitness ==
    /\ last.op = "read_page" /\ last.res = "Ok"
    /\ Evicted
    /\ Len(returned) >= 2
    /\ returned[1] \in Resident
    /\ returned[2] \notin Resident
    /\ manager.entries[manager.idx] = returned[1]

OnlyAppendedPagesReadable ==
    flags.faults = 0 =>
      /\ \A p \in PageIds :
           ReadBack(Pool, p).res = "Ok"
             => \E k \in 1..Len(returned) : returned[k] = p
      /\ NumPages(file) = Len(returned)

\* ====================================================================
\* Properties of the hash page codec (specification SpecHashPage)
\* ====================================================================
\* C23 as claimed: the header of a page built by Page::new(seed) for a
\* value type of n bytes has page_type 0x2000 at [4..6), value_size n at
\* [6..8), hash_algo 0 at [8..10) and the seed at [0x10..0x18), and
\* value_size() and hash_seed() read back n and the seed.
HashPageLayout ==
    (last.op = "Page_new" /\ last.res = "Ok") =>
      LET b == hpage.buffer IN
      /\ read_u16(Slice(b, 4, 6)) = SinglePageHashTable
      /\ read_u16(Slice(b, 6, 8)) = last.ret
      /\ read_u16(Slice(b, 8, 10)) = XxHash
      /\ read_u64(Slice(b, 16, 24)) = last.arg
      /\ value_size(b) = last.ret
      /\ hash_seed(b) = last.arg

\* C24 as claimed: from_aligned of a buffer whose tag at [4..6) is no known
\* page type fails with the PageType error and constructs no page.
UnknownTagRejected ==
    (last.op = "from_aligned" /\ last.arg \notin PageTypes) =>
      /\ last.res = "PageType"
      /\ hpage = NoPage

\* C25: the buffer that into_aligned returns passes check_crc: its bytes
\* [0..4) are the little-endian CRC-32/IEEE of its bytes [4..PageBytes),
\* which are those of the page, for every page that new, set_hash_seed and
\* from_aligned can produce.  (The CRC is the IEEE one: it maps "123456789"
\* to 0xCBF43926.)
SerialisedPagePassesCrc ==
    /\ checksum_ieee(<<49, 50, 51, 52, 53, 54, 55, 56, 57>>)
         = <<38, 57, 244, 203>>
    /\ hpage.is = "Page" =>
         LET r == into_aligned(hpage.buffer, FALSE) IN
         /\ r.res = "Ok"
         /\ check_crc(r.buffer)
         /\ Slice(r.buffer, 0, 4)
              = checksum_ieee(Slice(hpage.buffer, 4, PageBytes))
         /\ Slice(r.buffer, 4, PageBytes) = Slice(hpage.buffer, 4, PageBytes)
    /\ (last.op = "into_aligned" /\ last.res = "Ok") =>
         /\ hpage.is = "Buffer"
         /\ check_crc(hpage.buffer)
         /\ Slice(hpage.buffer, 4, PageBytes) = Slice(last.pre, 4, PageBytes)

\* C25 witness: a page whose seed was replaced after new has been
\* serialised, and its checksum differs from the one of the new page
SerialisedPagePassesCrcWitness ==
    /\ last.op = "into_aligned" /\ last.res = "Ok"
    /\ hash_seed(hpage.buffer) = SeedOf(MaxSeed)
    /\ Slice(hpage.buffer, 0, 4)
         # Slice(into_aligned(Page_new(SeedOf(0), 0).buffer, FALSE).buffer,
                 0, 4)
    /\ Slice(hpage.buffer, 0, 4) # <<0, 0, 0, 0>>

\* ====================================================================
\* Properties of the hash table (specification SpecHashTable)
\* ====================================================================
\* the page ids that new_with_rng returned
NewTables == {returned[i] : i \in 1..Len(returned)}

\* the value of the last successful insert of key, if there is one
LastInserted(key) ==
    LET is == {i \in 1..Len(inserted) : inserted[i].key = key} IN
    IF is = {} THEN [some |-> FALSE, value |-> None]
    ELSE [some  |-> TRUE,
          value |-> inserted[CHOOSE i \in is : \A j \in is : j <= i].value]

\* C21 as claimed, with the call of the test simple_access that the claim
\* is drawn from: an insert into a table that new has just written, read
\* without an I/O fault, returns Ok; get(key) gives the value of the last
\* insert of key that returned Ok, and nothing for a key never inserted.
InsertThenGet ==
    /\ (last.op = "insert" /\ last.res # "Panic"
          /\ table.page_id \in NewTables) => last.res = "Ok"
    /\ table.some => \A k \in HashKeys : get(table, k) = LastInserted(k)

\* C22 as claimed: from_page on a new pool over the same file, for a page
\* that new wrote, returns Ok with a table of that page whose seed is the
\* one new stored.
ReopenRestoresSeed ==
    (last.op = "from_page" /\ last.ret = TRUE /\ last.arg \in NewTables) =>
      /\ last.res = "Ok"
      /\ table.some
      /\ table.page_id = last.arg
      /\ table.seed = expect[last.arg]

\* ====================================================================
\* Properties of the record manager (specification SpecRecord)
\* ====================================================================
Appended == last.op = "append_record"

\* the current page had room for the record of the last call and its slot
HadRoom == free_space(last.pre.cur.pg) >= Len(last.rec) + 4

\* an empty slotted page has room for the record of the last call
FitsEmptyPage == Len(last.rec) + 4 <= PAGESIZE - 4

PoolRecord(page_id, recno) ==
    LET r == BufferPool_read_page(Pool, page_id, "none") IN
    IF r.res # "Ok" THEN [some |-> FALSE, bytes |-> <<>>]
    ELSE get_record(SlottedPage_from(r.out), recno)

FailedAppendKeepsCurrent ==
    /\ (Appended /\ last.res = "Err") => current_page = last.pre.cur
    /\ last.res # "Panic" =>
         record_count(current_page.pg)
           = Cardinality({k \in 1..Len(records) :
                            records[k].pid = current_page.pid})

\* ====================================================================
\* Properties of the pool's statements (specification SpecSteps)
\* ====================================================================
\* the call is about to enter the paged file, or has just come back
IoBoundary ==
    \/ call.pc \in IoSteps
    \/ call.trace # <<>> /\ call.trace[Len(call.trace)] \in IoSteps

\* every page-table entry points to a frame holding the bytes last handed
\* to an installation of that page
FramesHoldPages ==
    \A p \in Resident :
      expect[p] # <<>> /\ frames[page_table[p]] = expect[p]

\* no file call lies between two statements of an installation
NoIoInsideInstall(trace) ==
    \A i, j, k \in DOMAIN trace :
      (i < j /\ j < k /\ trace[i] \in InstallSteps
         /\ trace[k] \in InstallSteps)
        => trace[j] \notin IoSteps

Installed == last.op \in {"read_page", "append_page", "update_page"}
             /\ last.arg # None /\ last.rec # <<>>

\* C32: every frame is as long as a page buffer, so an installation
\* stores the whole page in its frame, and a hit on a resident page hands
\* the caller a buffer that holds nothing but the frame's bytes.
FramesArePageSized ==
    /\ Installed =>
         /\ last.res = "Ok"
         /\ Len(frames[last.arg]) = PageUnits
         /\ last.op # "read_page" => frames[last.arg] = last.rec
    /\ \A p \in Resident :
         Buffer_copy_from_slice(Buffer_with_value(1),
                                frames[page_table[p]])
           = Buffer_copy_from_slice(Buffer_with_value(2),
                                    frames[page_table[p]])

\* ====================================================================
\* Properties of the pool of buffer.rs (specification SpecCache)
\* ====================================================================
\* C38: in the pool of buffer.rs a read_page of p after a successful
\* update_page(p, d) hands back d, whether or not p was cached before;
\* and no cache entry differs from the file's bytes for its page.
CacheFollowsFile ==
    /\ (last.op = "read_page" /\ last.res = "Ok"
          /\ expect[last.arg] # None)
         => last.rec = Buffer_with_value(expect[last.arg])
    /\ \A p \in Resident :
         PageExists(file, p)
           => frames[page_table[p]] = FilePage(file, p).buf

====
